---- MODULE Spec2Model ----
(***************************************************************************)
(* Model of the Maya icon build/export pipeline of icon_creation/core.py   *)
(* and icon_creation/utils.py: buildIcon, exportIcon, openTempScene,       *)
(* exportIconComponent, bakeAnimation, validateIcon.                       *)
(*                                                                         *)
(* The specifications:                                                     *)
(*   Spec      the build pipeline, one step of buildIcon per action, with  *)
(*             the failures of Maya commands and of file I/O as            *)
(*             nondeterministic inputs;                                    *)
(*   SpecUnit  direct calls of exportIconComponent and bakeAnimation on    *)
(*             scenes and settings drawn from bounded families;            *)
(*   SpecTwice two exports in a row, the second in the environment of the  *)
(*             first;                                                      *)
(*   SpecValidate  a build with validation, over the outputs of the        *)
(*             validator;                                                  *)
(*   SpecZip   createIconZip over the contents of the Icon directory;      *)
(*   SpecSettings  calls of getIconSettings, updateClipData and            *)
(*             getAnimationData in any order;                              *)
(*   SpecRace  two callers of the functions that change the settings, the  *)
(*             read and the write of each a step of its own;               *)
(*   SpecCheck the check of the animation step of the tool (view.py) over  *)
(*             the frame ranges of its clip widgets;                       *)
(*   SpecKeys  checkTakeForAnimation over the keys of the joints;          *)
(*   SpecXform bakeTransforms over the trees and local transforms of the   *)
(*             model component;                                            *)
(*   SpecRefs  the loop of importSceneReferences, one step per action,     *)
(*             with weak fairness: the loop runs on;                       *)
(*   SpecUI    the Export and Upload buttons around the pipeline's build.  *)
(***************************************************************************)
EXTENDS Integers, Sequences, FiniteSets, TLC

VARIABLES
    settings,   \* the iconSettings blob of the template node, decoded
    sceneName,  \* cmds.file(query=True, sceneName=True): "" when never saved
    templ,      \* which component plugs of the template are connected
    matKind,    \* each material: its node type and its color input
    scene,      \* the open scene: one node tree per component
    saved,      \* the scene file on disk (the last save of the open scene)
    disk,       \* the files of <outputPath>/Icon/<T>, per component
    kmat,       \* the materials list of <T>.kmat on disk, per component
    fbx,        \* the nodes written to <T>.fbx on disk, per component
    pc,         \* position of the running buildIcon ("idle": none running)
    args,       \* the arguments of the running buildIcon
    result,     \* the local `result` of exportIcon, then of buildIcon
    raised,     \* whether the with-body of exportIcon has raised
    io,         \* the I/O performed so far by the running build
    expOk,      \* components whose exportIconComponent returned True in this build
    exported,   \* how exportIcon ended in this build: "none", "True", "False", "raise"
    validated,  \* validator run of this build: "no" | "ok" | "errors" | "exception"
    bakes,      \* the bake passes of the last bakeAnimation
    lastCall,   \* record of the last exportIconComponent call
    start,      \* the authored scene and the settings the behaviour started from
    env,        \* the outcomes of I/O and of Maya commands, when they are fixed
    tempTextures, \* the materials whose texture file lies in tempfile.gettempdir()
    run,        \* how many builds have been started
    first,      \* the output after the first build, once a second one has started
    validatorOut, \* exit code and captured output lines of the validator
    decoded,    \* what parseValidationOutput did with the output
    returned,   \* the values validateIcon handed back: <<>> when it raised
    logged,     \* the error report validateIcon wrote to the log
    iconDir,    \* the files below <outputPath>/Icon, in createIconZip
    zip,        \* the entries of <outputPath>/Icon.zip
    blob,       \* the template node and its iconSettings attribute, undecoded
    payload,    \* the argument of the last updateClipData
    latest,     \* per clip name, the `enabled` of its latest payload
    call,       \* the last call of a settings function and how it ended
    widgets,    \* the clip widgets of the animation step
    keyed,      \* per node of the model component, the frames with keys of each channel
    checked,    \* what AnimationWidget.check returned
    cycles,     \* per caller of a settings function, its read-modify-write cycle
    xform,      \* the transforms below the template, in bakeTransforms
    refs,       \* the file references of the scene, in importSceneReferences
    ui          \* the running action of the tool's window

\* Variables no action changes.
constVars == <<start, env, tempTextures>>

histVars == <<run, first>>

validatorVars == <<validatorOut, decoded, returned, logged>>

\* Variables of the functions called on their own.
unitVars == <<iconDir, zip, blob, payload, latest, call, widgets, keyed, checked>>

\* Variables of the functions that have a specification of their own.
sideVars == <<cycles, xform, refs, ui>>

vars == <<settings, sceneName, templ, matKind, scene, saved, disk, kmat, fbx,
          pc, args, result, raised, io, expOk, exported, validated, bakes, lastCall,
          constVars, sideVars, histVars, validatorVars, unitVars>>

(***************************************************************************)
(* Bounds of the model.                                                    *)
(***************************************************************************)
MaxNodes == 3     \* nodes below a component root in the tree family
MaxMeshes == 2    \* meshes of a component in the material family
MaxMats == 2      \* materials of the scene
MaxFrame == 3     \* frames are 1..MaxFrame
MaxTakes == 2     \* length of animationTakes
MaxLines == 2     \* lines of the validator's output
MaxFiles == 2     \* files below the Icon directory, in createIconZip
MaxOver == 2      \* frames by which an edited clip exceeds its capacity
MaxJoints == 2    \* nodes below the model component, in checkTakeForAnimation
MaxRefs == 2      \* file references of the scene

\* exportIcon line 390: the component types
ComponentSet == {"Model", "Portal"}
Materials == 1..MaxMats
Frames == 1..MaxFrame

(***************************************************************************)
(* constants.py                                                            *)
(***************************************************************************)
INVALID_NODE_TYPES == <<"constraint", "light", "camera">>

\* utils.KMAT_MATERIAL_DEFINITION: the template every manifest entry is a
\* copy of; color "white" is [1, 1, 1, 1].
KMAT_MATERIAL_DEFINITION ==
    [albedo |-> "{relativeTexturePath}", color |-> "white", blendmode |-> "Opaque",
     name |-> "{shaderName}", shaderName |-> "UnlitTextured"]

\* Node kinds of the scene graph.  kTransform is had by plain transforms, by
\* joints and by constraint nodes (all derive from transform); meshes, lights
\* and cameras are shapes.
NodeKinds == {"transform", "joint", "mesh", "constraint", "light", "camera"}

hasFn(kind, nodeType) ==
    CASE nodeType = "kTransform" -> kind \in {"transform", "joint", "constraint"}
      [] nodeType = "kJoint"     -> kind = "joint"
      [] nodeType = "kMesh"      -> kind = "mesh"
      [] OTHER                   -> kind = nodeType

\* Material kinds: a node type outside VALID_MATERIAL_TYPES, or a supported
\* type whose color input is unconnected ("flat") or connected to a file node
\* whose fileTextureName is empty, names no file on disk, or names a file.
MatKinds == {"unsupported", "flat", "texEmpty", "texMissing", "texOk"}

(***************************************************************************)
(* The scene graph.  A component's tree is a record                        *)
(*   n      : number of nodes below the component root (the root is 0)     *)
(*   parent : [1..n -> -1..n-1], parent[i] < i; -1 is the world            *)
(*   kind   : [1..n -> NodeKinds]                                          *)
(*   mats   : [1..n -> SUBSET Materials], the materials whose shading      *)
(*            engine a mesh is connected to                                *)
(*   alive  : the nodes not deleted                                        *)
(* Child order is index order (MFnDagNode.child(i)).                       *)
(***************************************************************************)
EmptyScene ==
    [n |-> 0, parent |-> <<>>, kind |-> <<>>, mats |-> <<>>, alive |-> {}]

\* core.getChildren, from child index i on.
RECURSIVE getChildrenFrom(_, _, _, _, _)
getChildrenFrom(s, node, i, recursive, nodeType) ==
    IF i > s.n THEN <<>>
    ELSE (IF i \in s.alive /\ s.parent[i] = node
          THEN (IF hasFn(s.kind[i], nodeType) THEN <<i>> ELSE <<>>)
               \o (IF recursive
                   THEN getChildrenFrom(s, i, 1, recursive, nodeType)
                   ELSE <<>>)
          ELSE <<>>)
         \o getChildrenFrom(s, node, i + 1, recursive, nodeType)

getChildren(s, node, recursive, nodeType) ==
    getChildrenFrom(s, node, 1, recursive, nodeType)

Range(f) == {f[i] : i \in DOMAIN f}

\* Concatenation of f(x) over the elements x of the sequence q, in order.
RECURSIVE FlatMap(_, _)
FlatMap(f(_), q) ==
    IF q = <<>> THEN <<>> ELSE f(Head(q)) \o FlatMap(f, Tail(q))

\* A set of integers as the sequence of its elements in increasing order.
RECURSIVE SortedSeq(_)
SortedSeq(S) ==
    IF S = {} THEN <<>>
    ELSE LET m == CHOOSE x \in S : \A y \in S : x <= y
         IN <<m>> \o SortedSeq(S \ {m})

\* core.getMeshes: the mesh shapes directly below a node.
getMeshes(s, node) == getChildren(s, node, FALSE, "kMesh")

\* core.getMeshesRecursive: the meshes of every transform below the node.
getMeshesRecursive(s, node) ==
    LET allTransforms == getChildren(s, node, TRUE, "kTransform")
        meshesOf(t) == getMeshes(s, t)
    IN FlatMap(meshesOf, allTransforms)

\* core.getMaterialsForMesh: <<supported, unsupported>> materials of a mesh.
getMaterialsForMesh(s, mesh) ==
    LET connectedMaterials == SortedSeq(s.mats[mesh])
        unsupported == SelectSeq(connectedMaterials,
                                 LAMBDA m : matKind[m] = "unsupported")
    IN <<SelectSeq(connectedMaterials, LAMBDA m : m \notin Range(unsupported)),
         unsupported>>

\* core.getMaterialsForMeshes
getMaterialsForMeshes(s, meshes) ==
    LET supp(mesh) == getMaterialsForMesh(s, mesh)[1]
        unsupp(mesh) == getMaterialsForMesh(s, mesh)[2]
    IN <<FlatMap(supp, meshes), FlatMap(unsupp, meshes)>>

\* UniqueMaterials with a fault: the list is used as collected, one element
\* per mesh binding.
UniqueMaterialsNoSet(materials) == materials

\* core.exportIconComponent line 445: materials = list(set(materials)).
UniqueMaterials(materials) == SortedSeq(Range(materials))

\* core.getTexture: the file node on the color input, 0 for None.  The file
\* node of material m is numbered m.
getTexture(m) == IF matKind[m] \in {"texEmpty", "texMissing", "texOk"} THEN m ELSE 0

\* core.getFilePathFromTexture: the fileTextureName of a file node, as the
\* base name of the path; <<"", 0>> is the empty string.
getFilePathFromTexture(tex) ==
    IF matKind[tex] = "texEmpty" THEN <<"", 0>> ELSE <<"tex", tex>>

\* os.path.exists of a texture path.
TextureOnDisk(tex) == matKind[tex] = "texOk"

\* core.getTexturesFromMaterials
getTexturesFromMaterials(materials) ==
    LET texOf(m) == IF getTexture(m) # 0 THEN <<getTexture(m)>> ELSE <<>>
    IN FlatMap(texOf, materials)

\* core.getFilePathsFromTextures: only non-empty paths that exist on disk.
getFilePathsFromTextures(textures) ==
    LET pathOf(t) ==
            IF getFilePathFromTexture(t) # <<"", 0>> /\ TextureOnDisk(t)
            THEN <<getFilePathFromTexture(t)>> ELSE <<>>
    IN FlatMap(pathOf, textures)

\* MaterialEntry with a fault: the untextured branch does not pop "albedo".
MaterialEntryKeepsAlbedo(T, mat) ==
    LET tex == getTexture(mat)
        materialDefinition == KMAT_MATERIAL_DEFINITION
    IN IF tex # 0
       THEN IF getFilePathFromTexture(tex) = <<"", 0>>
            THEN <<>>
            ELSE <<[k \in DOMAIN materialDefinition |->
                     CASE k = "albedo" -> <<"Icon", T, getFilePathFromTexture(tex)>>
                       [] k = "name"   -> <<"material", mat>>
                       [] OTHER        -> <<materialDefinition[k]>>]>>
       ELSE <<[k \in DOMAIN materialDefinition |->
                CASE k = "color" -> <<"colorOf", mat>>
                  [] k = "name"  -> <<"material", mat>>
                  [] OTHER       -> <<materialDefinition[k]>>]>>

\* core.exportIconComponent lines 464-482: the manifest entry of a material;
\* <<>> when the material is skipped (`continue`).
MaterialEntry(T, mat) ==
    LET tex == getTexture(mat)
        materialDefinition == KMAT_MATERIAL_DEFINITION
    IN IF tex # 0
       THEN IF getFilePathFromTexture(tex) = <<"", 0>>
            THEN <<>>
            ELSE <<[k \in DOMAIN materialDefinition |->
                     CASE k = "albedo" -> <<"Icon", T, getFilePathFromTexture(tex)>>
                       [] k = "name"   -> <<"material", mat>>
                       [] OTHER        -> <<materialDefinition[k]>>]>>
       ELSE <<[k \in DOMAIN materialDefinition \ {"albedo"} |->
                CASE k = "color" -> <<"colorOf", mat>>
                  [] k = "name"  -> <<"material", mat>>
                  [] OTHER       -> <<materialDefinition[k]>>]>>

\* The materials list of the manifest.
KmatMaterials(T, materials) ==
    LET entry(m) == MaterialEntry(T, m)
    IN FlatMap(entry, materials)

(***************************************************************************)
(* Files of an output directory: [name, fresh].  A file is fresh when the  *)
(* last exportIconComponent call on its directory wrote it.                *)
(***************************************************************************)
KmatFile == <<"kmat", 0>>
FbxFile == <<"fbx", 0>>
OtherFile == <<"other", 0>>

Aged(files) == {[name |-> f.name, fresh |-> FALSE] : f \in files}

\* Writing the files `names` into a directory, replacing files of those names.
WriteFiles(files, names) ==
    {f \in files : f.name \notin names} \cup {[name |-> n, fresh |-> TRUE] : n \in names}

\* Whether node i is r or lies below r.
RECURSIVE IsUnder(_, _, _)
IsUnder(s, i, r) ==
    \/ i = r
    \/ i >= 1 /\ IsUnder(s, s.parent[i], r)

\* cmds.delete: the nodes and everything below them leave the scene.
DeleteNodes(s, nodes) ==
    [s EXCEPT !.alive = {i \in @ : \A r \in nodes : ~IsUnder(s, i, r)}]

\* cmds.parent(childNodePaths, world=True): the nodes become children of the world.
ParentToWorld(s, nodes) ==
    [s EXCEPT !.parent = [i \in DOMAIN @ |-> IF i \in nodes THEN -1 ELSE @[i]]]

\* core.getNodePath of a node handle: "" once the node is deleted.
getNodePath(s, i) == IF i \in s.alive THEN <<"path", i>> ELSE <<"", 0>>

\* core.exportIconComponent lines 491-499: the nodes of an unsupported type.
UnsupportedNodes(s, node) ==
    LET ofType(nodeType) == getChildren(s, node, TRUE, nodeType)
    IN FlatMap(ofType, INVALID_NODE_TYPES)

\* BakeableNodes with a fault: every transform found before the deletion is
\* selected.
BakeableNodesUnfiltered(s, transforms) == Range(transforms)

\* core.exportIconComponent line 514: the nodes selected for the FBX export.
BakeableNodes(s, transforms) ==
    {i \in Range(transforms) : getNodePath(s, i) # <<"", 0>>}

\* FBXExport -s writes the selected nodes and what is below them.
FbxContent(s, selection) ==
    {i \in s.alive : \E r \in selection : IsUnder(s, i, r)}

(***************************************************************************)
(* core.exportIconComponent(componentType), lines 415-523, as a function   *)
(* of the state and of the outcomes of its I/O:                            *)
(*   left     the files shutil.rmtree(ignore_errors=True) failed to remove *)
(*   copyErr  shutil.copy2 raises IOError in utils.exportTexture           *)
(*   mayaErr  a Maya command of lines 489-515 raises RuntimeError          *)
(*   fbxErr   FBXExport raises RuntimeError inside utils.exportFBX         *)
(* The result: ret ("True" or "raise"), and the directory, manifest,       *)
(* interchange file and scene after the call.                              *)
(***************************************************************************)
ExportIconComponentResult(T, left, copyErr, mayaErr, fbxErr) ==
    LET s0 == scene[T]
        node == 0
        \* lines 428-430: rmtree(ignore_errors=True), makedirs when absent
        d1 == left
        \* lines 439-448
        meshes == getMeshesRecursive(s0, node)
        materials == UniqueMaterials(getMaterialsForMeshes(s0, meshes)[1])
        textures == getTexturesFromMaterials(materials)
        textureFilePaths == getFilePathsFromTextures(textures)
        \* lines 451-453: utils.exportTexture swallows the IOError of a copy
        d2 == IF copyErr THEN d1 ELSE WriteFiles(d1, Range(textureFilePaths))
        \* lines 456-486
        materialsList == KmatMaterials(T, materials)
        d3 == WriteFiles(d2, {KmatFile})
        \* lines 489-511
        transforms == getChildren(s0, node, TRUE, "kTransform")
        unsupportedNodes == UnsupportedNodes(s0, node)
        s1 == DeleteNodes(s0, Range(unsupportedNodes))
        children == getChildren(s1, node, FALSE, "kTransform")
        s2 == ParentToWorld(s1, Range(children))
        \* lines 514-521: utils.exportFBX returns its errors, which are dropped
        bakeableNodes == BakeableNodes(s2, transforms)
        d4 == IF fbxErr THEN d3 ELSE WriteFiles(d3, {FbxFile})
        base == [T |-> T, before |-> s0, pre |-> Aged(disk[T]), handed |-> {},
                 ret |-> "raise", disk |-> d1, kmat |-> kmat[T], fbx |-> fbx[T],
                 scene |-> s0]
    IN IF ~templ[T]
       THEN base    \* MFnDagNode(None) raises in getMeshesRecursive, line 439
       ELSE IF mayaErr
       THEN [base EXCEPT !.disk = d3, !.kmat = materialsList]
       ELSE [base EXCEPT !.ret = "True", !.disk = d4, !.kmat = materialsList,
                         !.fbx = IF fbxErr THEN @ ELSE FbxContent(s2, bakeableNodes),
                         !.handed = bakeableNodes, !.scene = s2]

(***************************************************************************)
(* Settings: the decoded iconSettings blob, a dict.  A key that was never  *)
(* written is absent from the domain.                                      *)
(***************************************************************************)
\* dict.get(key, default)
Get(d, key, default) == IF key \in DOMAIN d THEN d[key] ELSE default

\* constants.ICON_ANIMATION_CLIPS, the clip names
ClipNames == <<"idle", "hover", "activate", "menu", "loading">>

Take(name, startFrame, endFrame) ==
    [name |-> name, startFrame |-> startFrame, endFrame |-> endFrame]

\* The node <<T, i>> is node i of the tree of component T; <<T, 0>> is the
\* component's root.  core.getChildren(iconTemplateNode, nodeType=...): the
\* template's children are the two component roots, which are transforms.
TemplateChildren(nodeType) ==
    LET under(T) ==
            IF templ[T]
            THEN (IF hasFn("transform", nodeType) THEN <<0>> ELSE <<>>)
                 \o getChildren(scene[T], 0, TRUE, nodeType)
            ELSE <<>>
        tagM(i) == <<(<<"Model", i>>)>>
        tagP(i) == <<(<<"Portal", i>>)>>
    IN FlatMap(tagM, under("Model")) \o FlatMap(tagP, under("Portal"))

\* BakeCall with a fault: the pass stops one frame short of the take's end.
BakeCallShort(take) == <<(<<take.startFrame, take.endFrame - 1>>)>>

\* The frame pair of one cmds.bakeResults call.
BakeCall(take) == <<(<<take.startFrame, take.endFrame>>)>>

\* core.bakeAnimation, lines 570-615: the node paths baked and the time
\* range of each cmds.bakeResults call, in call order.
BakeAnimationResult ==
    LET defaultTake == Take("idle", 1, 2)
        animationTakes == Get(settings, "animationTakes", <<defaultTake>>)
        transforms == TemplateChildren("kTransform")
        unsupportedNodes == FlatMap(TemplateChildren, INVALID_NODE_TYPES)
        supportedNodes == SelectSeq(transforms, LAMBDA x : x \notin Range(unsupportedNodes))
    IN IF animationTakes = <<>>
       THEN [called |-> TRUE, nodes |-> {}, passes |-> <<>>]
       ELSE [called |-> TRUE, nodes |-> Range(supportedNodes),
             passes |-> FlatMap(BakeCall, animationTakes)]

\* os.path.abspath: the empty path is the current directory.
Abspath(path) == IF path = "" THEN "/cwd" ELSE path

NoCall ==
    [T |-> "none", before |-> EmptyScene, pre |-> {}, handed |-> {}, ret |-> "none"]

(***************************************************************************)
(* Text read by json.loads: empty, or text json.loads rejects, or the JSON *)
(* text of a number, or the JSON text of an object, given by the dict it   *)
(* decodes to.                                                             *)
(***************************************************************************)
TextLine == [kind |-> "text"]
EmptyLine == [kind |-> "empty"]
NumberLine == [kind |-> "number"]
ObjectLine(dict) == [kind |-> "object", value |-> dict]

\* json.loads(line): ValueError for the empty string and for text that is
\* not JSON.
JsonLoads(line) ==
    IF line.kind \in {"text", "empty"}
    THEN [ok |-> FALSE]
    ELSE [ok |-> TRUE, isDict |-> line.kind = "object",
          value |-> IF line.kind = "object" THEN line.value ELSE <<>>]

(***************************************************************************)
(* The iconSettings attribute of the template node.  blob is               *)
(*   [node |-> FALSE, noneError |-> e]  no template node in the scene; e   *)
(*       is the exception class MFnDependencyNode(None) raises             *)
(*   [node |-> TRUE, attr |-> FALSE]    a template without the attribute   *)
(*   [node |-> TRUE, attr |-> TRUE, text |-> t]  the attribute's string    *)
(***************************************************************************)
\* json.dumps of a dict.
JsonDumps(data) == ObjectLine(data)

TemplateBlob(data) == [node |-> TRUE, attr |-> TRUE, text |-> JsonDumps(data)]

\* core.getIconSettings, lines 98-118: only ValueError is caught.  findPlug
\* raises RuntimeError for an attribute the node does not have.
GetIconSettings(b) ==
    IF ~b.node
    THEN [raised |-> b.noneError # "ValueError", value |-> <<>>]
    ELSE IF ~b.attr
    THEN [raised |-> TRUE, value |-> <<>>]
    ELSE LET loaded == JsonLoads(b.text)
         IN IF loaded.ok
            THEN [raised |-> FALSE, value |-> loaded.value]
            ELSE [raised |-> FALSE, value |-> <<>>]

\* core.saveIconSettings, lines 121-141: every exception is caught and
\* logged, the attribute is then not written.
SaveIconSettings(b, data) ==
    IF b.node /\ b.attr THEN [b EXCEPT !.text = JsonDumps(data)] ELSE b

\* dict[key] = value
Put(d, key, value) == [k \in DOMAIN d \cup {key} |-> IF k = key THEN value ELSE d[k]]

\* The position of the first take of that name, 0 when there is none
\* (clipDataIndex, counted from 1).
RECURSIVE ClipDataIndexFrom(_, _, _)
ClipDataIndexFrom(animData, name, i) ==
    IF i > Len(animData) THEN 0
    ELSE IF animData[i].name = name THEN i
    ELSE ClipDataIndexFrom(animData, name, i + 1)

\* Pop with a fault: list.pop() without the index removes the last take.
PopLast(q, i) == SubSeq(q, 1, Len(q) - 1)

\* list.pop(index)
Pop(q, i) == SubSeq(q, 1, i - 1) \o SubSeq(q, i + 1, Len(q))

\* core.updateClipData lines 1039-1041: for every key k of the stored take
\* that the payload has, the take's k is assigned v, the value the stored
\* take has for k.
UpdatedTake(take, p) ==
    [k \in DOMAIN take |-> IF k \in DOMAIN p THEN take[k] ELSE take[k]]

\* core.updateClipData lines 1003-1046, on the settings it has read: the
\* branch taken, and the settings it hands to saveIconSettings when it saves.
UpdateClipDataOn(settingsData, p) ==
    LET animData == Get(settingsData, "animationTakes", <<>>)
        clipDataIndex == ClipDataIndexFrom(animData, p.name, 1)
        newClipData == Take(p.name, p.startFrame, p.endFrame)
        with(takes) == Put(settingsData, "animationTakes", takes)
    IN IF clipDataIndex = 0
       THEN IF ~p.enabled
            THEN [save |-> FALSE, data |-> settingsData, branch |-> "ignored"]
            ELSE [save |-> TRUE, data |-> with(Append(animData, newClipData)),
                  branch |-> "added"]
       ELSE IF ~p.enabled
       THEN [save |-> TRUE, data |-> with(Pop(animData, clipDataIndex)),
             branch |-> "removed"]
       ELSE [save |-> TRUE,
             data |-> with([animData EXCEPT ![clipDataIndex] = UpdatedTake(@, p)]),
             branch |-> "updated"]

\* core.updateClipData(payload), lines 990-1046: the blob after the call
\* and the branch taken.  An exception of getIconSettings leaves the call.
UpdateClipDataResult(b, p) ==
    IF p = <<>>
    THEN [blob |-> b, branch |-> "empty", raised |-> FALSE]
    ELSE LET got == GetIconSettings(b)
             r == UpdateClipDataOn(got.value, p)
         IN IF got.raised
            THEN [blob |-> b, branch |-> "raised", raised |-> TRUE]
            ELSE [blob |-> IF r.save THEN SaveIconSettings(b, r.data) ELSE b,
                  branch |-> r.branch, raised |-> FALSE]

\* core.getAnimationData(asDict=True), lines 1049-1065: a later item of a
\* name replaces an earlier one.
GetAnimationData(b) ==
    LET got == GetIconSettings(b)
        animData == Get(got.value, "animationTakes", <<>>)
        lastOf(name) == CHOOSE i \in DOMAIN animData :
                            /\ animData[i].name = name
                            /\ \A j \in DOMAIN animData : animData[j].name = name => j <= i
    IN IF got.raised
       THEN [raised |-> TRUE, value |-> <<>>]
       ELSE [raised |-> FALSE,
             value |-> [name \in {animData[i].name : i \in DOMAIN animData} |->
                          [startFrame |-> animData[lastOf(name)].startFrame,
                           endFrame |-> animData[lastOf(name)].endFrame]]]

(***************************************************************************)
(* core.createIconZip, lines 1068-1097.  A file below <outputPath>/Icon is *)
(*   [dir |-> the folders from Icon down to the file, name |-> the file    *)
(*    name as its dot-separated parts]                                     *)
(***************************************************************************)
\* os.path.splitext(fn)[1] without its dot: the part after the last dot,
\* leading dots of the name not counted.
Splitext(name) ==
    IF Len(name) >= 2 /\ \E i \in 1..(Len(name) - 1) : name[i] # ""
    THEN name[Len(name)]
    ELSE ""

\* GLBPaths with a fault: every file is yielded.
GLBPathsAll(files) == files

\* _getGLBPaths, lines 1080-1084: os.walk visits every folder below Icon.
GLBPaths(files) == {f \in files : Splitext(f.name) \in {"kmat", "fbx", "png", "jpg"}}

\* _writeZip, lines 1074-1078: the name of the folder holding the file,
\* then the file name.
ArchiveName(f) == <<IF f.dir = <<>> THEN "Icon" ELSE f.dir[Len(f.dir)], f.name>>

\* The call: os.path.dirname(None) raises when outputPath is not set.
CreateIconZipResult ==
    IF "outputPath" \notin DOMAIN settings
    THEN [called |-> TRUE, raised |-> TRUE, entries |-> {}]
    ELSE [called |-> TRUE, raised |-> FALSE,
          entries |-> {ArchiveName(f) : f \in GLBPaths(iconDir)}]

NoZip == [called |-> FALSE, raised |-> FALSE, entries |-> {}]

(***************************************************************************)
(* Scenes and settings the model starts from.                              *)
(***************************************************************************)
\* A component with one textured mesh, and a constraint with a joint below it.
SampleModel ==
    [n |-> 4,
     parent |-> <<0, 1, 0, 3>>,
     kind |-> <<"transform", "mesh", "constraint", "joint">>,
     mats |-> <<{}, {1}, {}, {}>>,
     alive |-> 1..4]

\* A component with one flat-colored mesh.
SamplePortal ==
    [n |-> 2,
     parent |-> <<0, 1>>,
     kind |-> <<"transform", "mesh">>,
     mats |-> <<{}, {MaxMats}>>,
     alive |-> 1..2]

SampleMatKind == [m \in Materials |-> IF m = 1 THEN "texOk" ELSE "flat"]

\* Every tree of MaxNodes nodes of any kind, no material bound.  Shapes
\* (meshes, lights, cameras) have no children in the DAG.
ShapeKinds == {"mesh", "light", "camera"}

TreeScenes ==
    {[n |-> MaxNodes, parent |-> p, kind |-> k,
      mats |-> [i \in 1..MaxNodes |-> {}], alive |-> 1..MaxNodes] :
        p \in {q \in [1..MaxNodes -> 0..(MaxNodes - 1)] : \A i \in 1..MaxNodes : q[i] < i},
        k \in [1..MaxNodes -> NodeKinds]}

WellFormed(s) == \A i \in 1..s.n : s.parent[i] >= 1 => s.kind[s.parent[i]] \notin ShapeKinds

\* MaxMeshes meshes, mesh j the shape 2j of the transform 2j-1 below the
\* root; the first bound to any set of materials, the others to at most one.
MaterialScenes ==
    {[n |-> 2 * MaxMeshes,
      parent |-> [i \in 1..(2 * MaxMeshes) |-> IF i % 2 = 1 THEN 0 ELSE i - 1],
      kind |-> [i \in 1..(2 * MaxMeshes) |-> IF i % 2 = 1 THEN "transform" ELSE "mesh"],
      mats |-> [i \in 1..(2 * MaxMeshes) |-> IF i % 2 = 1 THEN {} ELSE b[i \div 2]],
      alive |-> 1..(2 * MaxMeshes)] :
        b \in {c \in [1..MaxMeshes -> SUBSET Materials] :
                  \A j \in 2..MaxMeshes : Cardinality(c[j]) <= 1}}

\* Every list of at most MaxTakes takes, the take at position i named after
\* the i-th clip.
RECURSIVE TakeLists(_)
TakeLists(k) ==
    IF k = 0 THEN {<<>>}
    ELSE LET shorter == TakeLists(k - 1)
         IN shorter \cup
            {Append(q, Take(ClipNames[k], a, b)) :
                q \in {x \in shorter : Len(x) = k - 1}, a \in Frames, b \in Frames}

OutputPath == "/out"

\* The settings of the pipeline specification.
PipelineSettings ==
    {<<>>,
     [outputPath |-> OutputPath],
     [outputPath |-> OutputPath, animationTakes |-> <<>>],
     [outputPath |-> OutputPath, animationTakes |-> <<Take("idle", 1, 2)>>]}

\* What an output directory holds when a build starts: nothing, a file of
\* the user's, or the manifest and interchange file of an earlier build.
StaleDirs ==
    {{},
     {[name |-> OtherFile, fresh |-> FALSE]},
     {[name |-> KmatFile, fresh |-> FALSE], [name |-> FbxFile, fresh |-> FALSE]}}

NoValidator == [rc |-> 0, lines |-> <<>>]

NoSettingsCall == [fn |-> "none", branch |-> "none", raised |-> FALSE, value |-> <<>>]

NotDecoded == [called |-> FALSE, raised |-> FALSE, errors |-> <<>>]

\* The environment in which every I/O operation and Maya command succeeds.
NoEnv ==
    [copyOk |-> TRUE, prepErr |-> FALSE, stuck |-> {}, copyErr |-> FALSE,
     mayaErr |-> [T \in ComponentSet |-> FALSE], fbxErr |-> FALSE]

NoFirst ==
    [names |-> [T \in ComponentSet |-> {}], kmat |-> [T \in ComponentSet |-> {}],
     exported |-> "none"]

\* Nothing running of the functions that have a specification of their own.
NoSide ==
    /\ cycles = <<>>
    /\ xform = <<>>
    /\ refs = <<>>
    /\ ui = <<>>

InitCommon ==
    /\ saved = scene
    /\ kmat = [T \in ComponentSet |-> <<>>]
    /\ fbx = [T \in ComponentSet |-> {}]
    /\ args = [validate |-> FALSE, cleanup |-> FALSE]
    /\ result = FALSE
    /\ raised = FALSE
    /\ io = {}
    /\ expOk = {}
    /\ exported = "none"
    /\ validated = "no"
    /\ bakes = [called |-> FALSE, nodes |-> {}, passes |-> <<>>]
    /\ lastCall = NoCall
    /\ start = [scene |-> scene, settings |-> settings]
    /\ run = 0
    /\ first = NoFirst
    /\ validatorOut = NoValidator
    /\ decoded = NotDecoded
    /\ returned = <<>>
    /\ logged = <<>>
    /\ zip = NoZip
    /\ payload = <<>>
    /\ call = NoSettingsCall
    /\ checked = FALSE

\* The start of a build: nothing known of the Icon directory beyond the two
\* component directories, the settings saved on the template.
InitBuild ==
    /\ InitCommon
    /\ blob = TemplateBlob(settings)
    /\ iconDir = {}
    /\ NoSide
    /\ latest = <<>>
    /\ widgets = <<>>
    /\ keyed = <<>>

\* The pipeline: a template in a scene, before a build.
Init ==
    /\ settings \in PipelineSettings
    /\ sceneName \in {"", "/work/scene.ma"}
    /\ templ \in [ComponentSet -> BOOLEAN]
    /\ matKind = SampleMatKind
    /\ scene = [T \in ComponentSet |-> IF T = "Model" THEN SampleModel ELSE SamplePortal]
    /\ \E d \in StaleDirs : disk = [T \in ComponentSet |-> d]
    /\ pc = "idle"
    /\ env = NoEnv
    /\ tempTextures = {}
    /\ InitBuild

\* Direct calls: either the scene or the take list ranges over its family.
InitUnit ==
    /\ sceneName = "/work/scene.ma"
    /\ templ = [T \in ComponentSet |-> TRUE]
    /\ \/ /\ settings = [outputPath |-> OutputPath]
          /\ matKind = SampleMatKind
          /\ \E m \in {t \in TreeScenes : WellFormed(t)} :
                scene = [T \in ComponentSet |-> IF T = "Model" THEN m ELSE SamplePortal]
       \/ /\ settings = [outputPath |-> OutputPath]
          /\ \E m \in MaterialScenes :
                /\ scene = [T \in ComponentSet |-> IF T = "Model" THEN m ELSE EmptyScene]
                /\ matKind \in {k \in [Materials -> MatKinds] :
                                    \A x \in Materials :
                                        (\A i \in 1..m.n : x \notin m.mats[i]) => k[x] = "flat"}
       \/ /\ \E q \in TakeLists(MaxTakes) :
                settings = [outputPath |-> OutputPath, animationTakes |-> q]
          /\ matKind = SampleMatKind
          /\ scene = [T \in ComponentSet |-> IF T = "Model" THEN SampleModel ELSE SamplePortal]
    /\ disk = [T \in ComponentSet |-> {}]
    /\ pc = "unit"
    /\ env = NoEnv
    /\ tempTextures = {}
    /\ InitBuild

(***************************************************************************)
(* buildIcon(validate, export, cleanup), core.py lines 242-267, one action *)
(* per step.  An exception that reaches buildIcon's `except` ends the      *)
(* build with result False.                                                *)
(***************************************************************************)
IoOf(T, left) ==
    {<<"rmtree", T>>} \cup (IF left = {} THEN {<<"makedirs", T>>} ELSE {})

\* The state after a call of exportIconComponent(T) with outcome r.
ApplyExport(T, r) ==
    /\ disk' = [disk EXCEPT ![T] = r.disk]
    /\ kmat' = [kmat EXCEPT ![T] = r.kmat]
    /\ fbx' = [fbx EXCEPT ![T] = r.fbx]
    /\ scene' = [scene EXCEPT ![T] = r.scene]
    /\ lastCall' = [T |-> T, before |-> r.before, pre |-> r.pre,
                    handed |-> r.handed, ret |-> r.ret]

\* buildIcon is entered: line 253.
BuildIcon(validate, cleanup) ==
    /\ pc = "idle"
    /\ pc' = "exportIcon"
    /\ args' = [validate |-> validate, cleanup |-> cleanup]
    /\ result' = FALSE
    /\ raised' = FALSE
    /\ io' = {}
    /\ expOk' = {}
    /\ exported' = "none"
    /\ validated' = "no"
    /\ run' = 1
    /\ UNCHANGED <<settings, sceneName, templ, matKind, scene, saved, disk, kmat,
                   fbx, bakes, lastCall, first>>
    /\ UNCHANGED <<constVars, sideVars, validatorVars, unitVars>>

\* exportIcon lines 369-375: the scene-name test and the forced save.  Maya
\* may refuse to save a scene that has no name (saveOk = FALSE: RuntimeError).
ExportIconSave(saveOk) ==
    /\ pc = "exportIcon"
    /\ sceneName # "" => saveOk
    /\ LET currentScenePath == Abspath(sceneName)
       IN IF currentScenePath = ""
          THEN /\ pc' = (IF args.validate THEN "validate" ELSE "done")
               /\ exported' = "False"
               /\ UNCHANGED <<saved, io>>
          ELSE IF ~saveOk
          THEN /\ pc' = "done"
               /\ exported' = "raise"
               /\ UNCHANGED <<saved, io>>
          ELSE /\ pc' = "settings"
               /\ saved' = scene
               /\ io' = io \cup {<<"sceneSave", "">>}
               /\ UNCHANGED exported
    /\ UNCHANGED <<settings, sceneName, templ, matKind, scene, disk, kmat, fbx,
                   args, result, raised, expOk, validated, bakes, lastCall>>
    /\ UNCHANGED <<constVars, sideVars, histVars, validatorVars, unitVars>>

\* exportIcon lines 377-380: ValueError when outputPath is not set.
ExportIconSettings ==
    /\ pc = "settings"
    /\ LET outputPath == Get(settings, "outputPath", "None")
       IN /\ pc' = (IF outputPath = "None" THEN "done" ELSE "openTemp")
          /\ exported' = (IF outputPath = "None" THEN "raise" ELSE exported)
    /\ UNCHANGED <<settings, sceneName, templ, matKind, scene, saved, disk, kmat,
                   fbx, args, result, raised, io, expOk, validated, bakes, lastCall>>
    /\ UNCHANGED <<constVars, sideVars, histVars, validatorVars, unitVars>>

\* The texture files rmtree(tempDir) of openTempScene line 270 finds: tempDir
\* is tempfile.gettempdir() itself, the system's temporary directory.
TempTextureFiles == {m \in tempTextures : matKind[m] = "texOk"}

\* shutil.rmtree(tempDir, ignore_errors=True) having removed the texture
\* files of the materials `gone`.
RmtreeTemp(gone) ==
    [m \in Materials |-> IF m \in gone THEN "texMissing" ELSE matKind[m]]

\* cmds.file(filePath, o=True, f=True) of openTempScene line 268: the scene
\* as it was last saved.
ReopenedScene == saved

\* utils.openTempScene up to its yield, lines 258-265.  When the copy fails
\* the generator ends without yielding: the finally clause reopens the scene
\* and removes the temporary directory, and contextlib raises RuntimeError
\* out of exportIcon.  The current directory, the path of a scene without a
\* name, cannot be copied.
OpenTempScene(copyOk, gone) ==
    /\ pc = "openTemp"
    /\ sceneName = "" => ~copyOk
    /\ gone \subseteq TempTextureFiles
    /\ IF copyOk
       THEN /\ pc' = "prepare"
            /\ gone = {}
            /\ io' = io \cup {<<"tempCopy", "">>}
            /\ UNCHANGED <<scene, exported, matKind>>
       ELSE /\ pc' = "done"
            /\ exported' = "raise"
            /\ io' = io \cup {<<"reopen", "">>, <<"rmtreeTemp", "">>}
            /\ scene' = ReopenedScene
            /\ matKind' = RmtreeTemp(gone)
    /\ UNCHANGED <<settings, sceneName, templ, saved, disk, kmat, fbx,
                   args, result, raised, expOk, validated, bakes, lastCall>>
    /\ UNCHANGED <<constVars, sideVars, histVars, validatorVars, unitVars>>

\* exportIcon lines 384-388: importSceneReferences, unlockNodes,
\* stripNamespaces, bakeTransforms.  A RuntimeError of a Maya command is
\* thrown into openTempScene, which logs it and does not raise it again.
Prepare(mayaErr) ==
    /\ pc = "prepare"
    /\ pc' = (IF mayaErr THEN "closeTemp" ELSE "bakeAnimation")
    /\ raised' = mayaErr
    /\ UNCHANGED <<exported, settings, sceneName, templ, matKind, scene, saved, disk, kmat,
                   fbx, args, result, io, expOk, validated, bakes, lastCall>>
    /\ UNCHANGED <<constVars, sideVars, histVars, validatorVars, unitVars>>

\* exportIcon line 389
BakeAnimation ==
    /\ pc = "bakeAnimation"
    /\ bakes' = BakeAnimationResult
    /\ pc' = "Model"
    /\ UNCHANGED <<exported, settings, sceneName, templ, matKind, scene, saved, disk, kmat,
                   fbx, args, result, raised, io, expOk, validated, lastCall>>
    /\ UNCHANGED <<constVars, sideVars, histVars, validatorVars, unitVars>>

\* exportIcon lines 390-391: result = exportIconComponent(componentType).
ExportIconComponent(T, left, copyErr, mayaErr, fbxErr) ==
    /\ pc = T
    /\ left \subseteq Aged(disk[T])
    /\ LET r == ExportIconComponentResult(T, left, copyErr, mayaErr, fbxErr)
       IN /\ ApplyExport(T, r)
          /\ io' = io \cup IoOf(T, left)
                      \cup (IF r.disk # left THEN {<<"write", T>>} ELSE {})
          /\ IF r.ret = "True"
             THEN /\ result' = TRUE
                  /\ expOk' = expOk \cup {T}
                  /\ pc' = (IF T = "Model" THEN "Portal" ELSE "closeTemp")
                  /\ UNCHANGED raised
             ELSE /\ raised' = TRUE
                  /\ pc' = "closeTemp"
                  /\ UNCHANGED <<result, expOk>>
    /\ UNCHANGED <<exported, settings, sceneName, templ, matKind, saved, args, validated, bakes>>
    /\ UNCHANGED <<constVars, sideVars, histVars, validatorVars, unitVars>>

\* The finally clause of openTempScene, lines 268-270, and the return of
\* exportIcon, lines 393-394; then buildIcon line 258.  rmtree removes what
\* it can of the temporary directory, the texture files `gone` among it.
CloseTempScene(gone) ==
    /\ pc = "closeTemp"
    /\ gone \subseteq TempTextureFiles
    /\ scene' = ReopenedScene
    /\ matKind' = RmtreeTemp(gone)
    /\ io' = io \cup {<<"reopen", "">>, <<"rmtreeTemp", "">>}
    /\ exported' = (IF result THEN "True" ELSE "False")
    /\ pc' = (IF args.validate THEN "validate" ELSE "done")
    /\ UNCHANGED <<settings, sceneName, templ, saved, disk, kmat, fbx,
                   args, result, raised, expOk, validated, bakes, lastCall>>
    /\ UNCHANGED <<constVars, sideVars, histVars, validatorVars, unitVars>>

(***************************************************************************)
(* The validator's captured output: a sequence of lines.                   *)
(***************************************************************************)
\* ParseFrom with a fault: a line json.loads rejects is skipped.
RECURSIVE ParseFromSkipping(_, _, _)
ParseFromSkipping(lines, i, errors) ==
    IF i > Len(lines)
    THEN [called |-> TRUE, raised |-> FALSE, errors |-> errors]
    ELSE LET jsonOutput == JsonLoads(lines[i])
         IN IF ~jsonOutput.ok
            THEN ParseFromSkipping(lines, i + 1, errors)
            ELSE IF ~jsonOutput.isDict
            THEN [called |-> TRUE, raised |-> TRUE, errors |-> <<>>]
            ELSE IF "errors" \in DOMAIN jsonOutput.value
            THEN ParseFromSkipping(lines, i + 1, errors \o jsonOutput.value.errors)
            ELSE ParseFromSkipping(lines, i + 1, errors)

\* The loop of core.parseValidationOutput, lines 355-358, from line i of the
\* output on.  json.loads raises ValueError, and `'errors' in` a number
\* raises TypeError: the call ends and the list built so far is lost.
RECURSIVE ParseFrom(_, _, _)
ParseFrom(lines, i, errors) ==
    IF i > Len(lines)
    THEN [called |-> TRUE, raised |-> FALSE, errors |-> errors]
    ELSE LET jsonOutput == JsonLoads(lines[i])
         IN IF ~jsonOutput.ok
            THEN [called |-> TRUE, raised |-> TRUE, errors |-> <<>>]
            ELSE IF ~jsonOutput.isDict
            THEN [called |-> TRUE, raised |-> TRUE, errors |-> <<>>]
            ELSE IF "errors" \in DOMAIN jsonOutput.value
            THEN ParseFrom(lines, i + 1, errors \o jsonOutput.value.errors)
            ELSE ParseFrom(lines, i + 1, errors)

\* parseValidationOutput with a fault: each line's errors replace the list.
RECURSIVE ParseKeepsLast(_, _, _)
ParseKeepsLast(lines, i, errors) ==
    IF i > Len(lines)
    THEN [called |-> TRUE, raised |-> FALSE, errors |-> errors]
    ELSE LET jsonOutput == JsonLoads(lines[i])
         IN IF ~jsonOutput.ok \/ ~jsonOutput.isDict
            THEN [called |-> TRUE, raised |-> TRUE, errors |-> <<>>]
            ELSE IF "errors" \in DOMAIN jsonOutput.value
            THEN ParseKeepsLast(lines, i + 1, jsonOutput.value.errors)
            ELSE ParseKeepsLast(lines, i + 1, errors)

ParseValidationOutputKeepsLast(output) == ParseKeepsLast(output, 1, <<>>)

\* core.parseValidationOutput, lines 344-360.
ParseValidationOutput(output) == ParseFrom(output, 1, <<>>)

\* validateIcon with a fault: the report holds the codes without the messages.
ErrorReportCodesOnly(errors) == [i \in DOMAIN errors |-> <<errors[i].code>>]

\* validateIcon lines 334-339: the report of the decoded errors, code and
\* message of each.
ErrorReport(errors) == [i \in DOMAIN errors |-> <<errors[i].code, errors[i].message>>]

\* validateIcon lines 320-341 on a validator that exited with rc and wrote
\* the lines: check_output raises CalledProcessError when rc is not 0.  An
\* error without a code or a message raises KeyError in the report loop.
ValidateIconResult(rc, lines) ==
    IF rc = 0
    THEN [decoded |-> NotDecoded, raised |-> FALSE, returned |-> <<TRUE>>, logged |-> <<>>]
    ELSE LET errors == ParseValidationOutput(lines)
         IN IF errors.raised
            THEN [decoded |-> errors, raised |-> TRUE, returned |-> <<>>, logged |-> <<>>]
            ELSE IF \E i \in DOMAIN errors.errors :
                       {"code", "message"} \ DOMAIN errors.errors[i] # {}
            THEN [decoded |-> errors, raised |-> TRUE, returned |-> <<>>, logged |-> <<>>]
            ELSE [decoded |-> errors, raised |-> FALSE, returned |-> <<FALSE>>,
                  logged |-> ErrorReport(errors.errors)]

\* Whether the output holds the files of both components; the validator
\* cannot pass an icon whose files are missing.
IconComplete ==
    \A T \in ComponentSet : {KmatFile, FbxFile} \subseteq {f.name : f \in disk[T]}

\* validateIcon, lines 287-341, called at buildIcon line 259, and the end of
\* buildIcon, lines 260-267: an exception out of validateIcon makes the
\* result False; with cleanup set, buildIcon only logs (lines 261-262).
ValidateIconOn(rc, lines) ==
    /\ pc = "validate"
    /\ rc = 0 => IconComplete
    /\ LET v == ValidateIconResult(rc, lines)
       IN /\ validatorOut' = [rc |-> rc, lines |-> lines]
          /\ decoded' = v.decoded
          /\ returned' = v.returned
          /\ logged' = v.logged
          /\ validated' = (IF v.raised THEN "exception"
                           ELSE IF v.returned[1] THEN "ok" ELSE "errors")
          /\ result' = (IF v.raised THEN FALSE ELSE v.returned[1])
    /\ pc' = "done"
    /\ UNCHANGED <<exported, settings, sceneName, templ, matKind, scene, saved, disk, kmat,
                   fbx, args, raised, io, expOk, bakes, lastCall>>
    /\ UNCHANGED <<constVars, sideVars, histVars, unitVars>>

SampleError == [code |-> "E1", message |-> "m1"]

\* The validator exits 0 ("ok"), exits non-zero with JSON lines ("errors"),
\* or its output has a line json.loads rejects ("exception":
\* parseValidationOutput raises).
ValidateIcon(verdict) ==
    /\ verdict \in {"ok", "errors", "exception"}
    /\ ValidateIconOn(IF verdict = "ok" THEN 0 ELSE 1,
                      CASE verdict = "ok" -> <<>>
                        [] verdict = "errors" -> <<ObjectLine([errors |-> <<SampleError>>])>>
                        [] verdict = "exception" -> <<TextLine>>)

Next ==
    \/ \E validate \in BOOLEAN, cleanup \in BOOLEAN : BuildIcon(validate, cleanup)
    \/ \E saveOk \in BOOLEAN : ExportIconSave(saveOk)
    \/ ExportIconSettings
    \/ \E copyOk \in BOOLEAN, gone \in SUBSET TempTextureFiles :
          OpenTempScene(copyOk, gone)
    \/ \E mayaErr \in BOOLEAN : Prepare(mayaErr)
    \/ BakeAnimation
    \/ \E T \in ComponentSet, copyErr \in BOOLEAN, mayaErr \in BOOLEAN, fbxErr \in BOOLEAN :
          \E left \in SUBSET Aged(disk[T]) :
             ExportIconComponent(T, left, copyErr, mayaErr, fbxErr)
    \/ \E gone \in SUBSET TempTextureFiles : CloseTempScene(gone)
    \/ \E verdict \in {"ok", "errors", "exception"} : ValidateIcon(verdict)

Spec == Init /\ [][Next]_vars

(***************************************************************************)
(* Direct calls of exportIconComponent, on the Model component, and of     *)
(* bakeAnimation.                                                          *)
(***************************************************************************)
CallExportIconComponent(T, copyErr, mayaErr, fbxErr) ==
    /\ pc = "unit"
    /\ pc' = "called"
    /\ ApplyExport(T, ExportIconComponentResult(T, {}, copyErr, mayaErr, fbxErr))
    /\ UNCHANGED <<exported, settings, sceneName, templ, matKind, saved, args, result,
                   raised, io, expOk, validated, bakes>>
    /\ UNCHANGED <<constVars, sideVars, histVars, validatorVars, unitVars>>

CallBakeAnimation ==
    /\ pc = "unit"
    /\ pc' = "called"
    /\ bakes' = BakeAnimationResult
    /\ UNCHANGED <<exported, settings, sceneName, templ, matKind, scene, saved, disk, kmat,
                   fbx, args, result, raised, io, expOk, validated, lastCall>>
    /\ UNCHANGED <<constVars, sideVars, histVars, validatorVars, unitVars>>

NextUnit ==
    \/ \E T \in {"Model"}, copyErr \in BOOLEAN, mayaErr \in BOOLEAN, fbxErr \in BOOLEAN :
          CallExportIconComponent(T, copyErr, mayaErr, fbxErr)
    \/ CallBakeAnimation

SpecUnit == InitUnit /\ [][NextUnit]_vars

(***************************************************************************)
(* Two builds in a row, buildIcon(validate=False) twice, in one            *)
(* environment: every I/O operation and Maya command has the outcome env   *)
(* gives it, in the first build and in the second.                         *)
(***************************************************************************)
Envs ==
    [copyOk : BOOLEAN, prepErr : BOOLEAN, stuck : {{}, {OtherFile}},
     copyErr : BOOLEAN, mayaErr : [ComponentSet -> BOOLEAN], fbxErr : BOOLEAN]

SampleScene ==
    [T \in ComponentSet |-> IF T = "Model" THEN SampleModel ELSE SamplePortal]

InitTwice ==
    /\ settings = [outputPath |-> OutputPath, animationTakes |-> <<Take("idle", 1, 2)>>]
    /\ sceneName = "/work/scene.ma"
    /\ templ = [T \in ComponentSet |-> TRUE]
    /\ matKind = SampleMatKind
    /\ scene = SampleScene
    /\ \E d \in StaleDirs : disk = [T \in ComponentSet |-> d]
    /\ pc = "idle"
    /\ env \in Envs
    /\ tempTextures \in SUBSET {m \in Materials : SampleMatKind[m] = "texOk"}
    /\ InitBuild

\* The files of Icon/<T> that shutil.rmtree cannot remove.
Stuck(T) == {f \in Aged(disk[T]) : f.name \in env.stuck}

\* The names of the files of Icon/<T>.
OutputNames(T) == {f.name : f \in disk[T]}

\* buildIcon is entered a second time, after the first has returned.
ExportIconAgain ==
    /\ pc = "done"
    /\ run = 1
    /\ run' = 2
    /\ first' = [names |-> [T \in ComponentSet |-> OutputNames(T)],
                 kmat |-> [T \in ComponentSet |-> Range(kmat[T])],
                 exported |-> exported]
    /\ pc' = "exportIcon"
    /\ result' = FALSE
    /\ raised' = FALSE
    /\ io' = {}
    /\ expOk' = {}
    /\ exported' = "none"
    /\ UNCHANGED <<settings, sceneName, templ, matKind, scene, saved, disk, kmat,
                   fbx, args, validated, bakes, lastCall>>
    /\ UNCHANGED <<constVars, sideVars, validatorVars, unitVars>>

\* In the second build the copy into the temporary directory can fail
\* although it succeeded in the first: rmtree(tempDir) has run in between.
NextTwice ==
    \/ BuildIcon(FALSE, FALSE)
    \/ ExportIconSave(TRUE)
    \/ ExportIconSettings
    \/ \E copyOk \in {env.copyOk} \cup (IF run = 2 THEN {FALSE} ELSE {}),
          gone \in SUBSET TempTextureFiles :
             OpenTempScene(copyOk, gone)
    \/ Prepare(env.prepErr)
    \/ BakeAnimation
    \/ \E T \in ComponentSet :
          ExportIconComponent(T, Stuck(T), env.copyErr, env.mayaErr[T], env.fbxErr)
    \/ \E gone \in SUBSET TempTextureFiles : CloseTempScene(gone)
    \/ ExportIconAgain

SpecTwice == InitTwice /\ [][NextTwice]_vars

(***************************************************************************)
(* A build with validation, buildIcon(validate=True), whose export         *)
(* succeeds, over the exit codes and outputs of the validator.             *)
(***************************************************************************)
\* The elements of an "errors" array; the last lacks its message.
ValidationErrors ==
    <<[code |-> "E1", message |-> "m1"], [code |-> "E2", message |-> "m2"],
      [code |-> "E3"]>>

\* The lines of the validator: not JSON, empty, a number, an object without
\* an "errors" key, and objects with an "errors" array.
Lines ==
    {TextLine, EmptyLine, NumberLine, ObjectLine([status |-> "done"])}
    \cup {ObjectLine([errors |-> e]) :
            e \in {<<>>, <<ValidationErrors[1]>>, <<ValidationErrors[2]>>,
                   <<ValidationErrors[1], ValidationErrors[2]>>,
                   <<ValidationErrors[3]>>}}

\* Every output of at most n lines.
RECURSIVE Outputs(_)
Outputs(n) ==
    IF n = 0 THEN {<<>>}
    ELSE LET shorter == Outputs(n - 1)
         IN shorter \cup {Append(q, l) : q \in {x \in shorter : Len(x) = n - 1}, l \in Lines}

InitValidate ==
    /\ settings = [outputPath |-> OutputPath, animationTakes |-> <<Take("idle", 1, 2)>>]
    /\ sceneName = "/work/scene.ma"
    /\ templ = [T \in ComponentSet |-> TRUE]
    /\ matKind = SampleMatKind
    /\ scene = SampleScene
    /\ disk = [T \in ComponentSet |-> {}]
    /\ pc = "idle"
    /\ env = NoEnv
    /\ tempTextures = {}
    /\ InitBuild

NextValidate ==
    \/ \E cleanup \in BOOLEAN : BuildIcon(TRUE, cleanup)
    \/ ExportIconSave(TRUE)
    \/ ExportIconSettings
    \/ OpenTempScene(env.copyOk, {})
    \/ Prepare(env.prepErr)
    \/ BakeAnimation
    \/ \E T \in ComponentSet :
          ExportIconComponent(T, {}, env.copyErr, env.mayaErr[T], env.fbxErr)
    \/ CloseTempScene({})
    \/ \E rc \in {0, 1}, lines \in Outputs(MaxLines) : ValidateIconOn(rc, lines)

SpecValidate == InitValidate /\ [][NextValidate]_vars

(***************************************************************************)
(* Direct calls of createIconZip, over the contents of the Icon directory. *)
(***************************************************************************)
ZipDirs == {<<>>, <<"Model">>, <<"Portal">>, <<"Model", "textures">>, <<"Other">>}

ZipNames ==
    {<<"Model", "kmat">>, <<"Model", "fbx">>, <<"tex", "png">>, <<"tex", "jpg">>,
     <<"notes", "txt">>, <<"", "kmat">>, <<"tex", "PNG">>}

ZipFiles == [dir : ZipDirs, name : ZipNames]

\* The sets of at most n files.
RECURSIVE FileSets(_)
FileSets(n) ==
    IF n = 0 THEN {{}}
    ELSE LET smaller == FileSets(n - 1)
         IN smaller \cup {S \cup {f} : S \in smaller, f \in ZipFiles}

\* A saved scene with the sample template, no build running.
InitSample ==
    /\ sceneName = "/work/scene.ma"
    /\ templ = [T \in ComponentSet |-> TRUE]
    /\ matKind = SampleMatKind
    /\ scene = SampleScene
    /\ disk = [T \in ComponentSet |-> {}]
    /\ pc = "unit"
    /\ env = NoEnv
    /\ tempTextures = {}
    /\ InitCommon

InitZip ==
    /\ settings \in {<<>>, [outputPath |-> OutputPath]}
    /\ blob = TemplateBlob(settings)
    /\ iconDir \in FileSets(MaxFiles)
    /\ NoSide
    /\ latest = <<>>
    /\ widgets = <<>>
    /\ keyed = <<>>
    /\ InitSample

CallCreateIconZip ==
    /\ pc = "unit"
    /\ pc' = "called"
    /\ zip' = CreateIconZipResult
    /\ UNCHANGED <<settings, sceneName, templ, matKind, scene, saved, disk, kmat, fbx,
                   args, result, raised, io, expOk, exported, validated, bakes, lastCall>>
    /\ UNCHANGED <<constVars, sideVars, histVars, validatorVars>>
    /\ UNCHANGED <<iconDir, blob, payload, latest, call, widgets, keyed, checked>>

NextZip == CallCreateIconZip

SpecZip == InitZip /\ [][NextZip]_vars

(***************************************************************************)
(* Calls of getIconSettings, updateClipData and getAnimationData, in any   *)
(* order, on a scene with or without a template.                           *)
(***************************************************************************)
\* The clips edited: the first three of constants.ICON_ANIMATION_CLIPS.
EditedClips == {ClipNames[i] : i \in 1..3}

\* The frame ranges a payload carries.
ClipFrames == {<<1, 2>>, <<2, MaxFrame>>}

\* AnimationClipWidget.payload, view.py lines 577-584; <<>> is the empty
\* payload.
Payloads ==
    {<<>>} \cup
    {[name |-> n, enabled |-> e, startFrame |-> f[1], endFrame |-> f[2]] :
        n \in EditedClips, e \in BOOLEAN, f \in ClipFrames}

\* The states of the iconSettings attribute a scene can be opened with.
StartBlobs ==
    {[node |-> FALSE, noneError |-> e] : e \in {"ValueError", "TypeError"}}
    \cup {[node |-> TRUE, attr |-> FALSE]}
    \cup {[node |-> TRUE, attr |-> TRUE, text |-> t] :
            t \in {EmptyLine, TextLine, JsonDumps(<<>>),
                   JsonDumps([outputPath |-> OutputPath])}}

\* The settings as the functions of core.py read them.
Decoded(b) == IF GetIconSettings(b).raised THEN <<>> ELSE GetIconSettings(b).value

InitSettings ==
    /\ blob \in StartBlobs
    /\ settings = Decoded(blob)
    /\ iconDir = {}
    /\ NoSide
    /\ latest = [n \in EditedClips |-> "none"]
    /\ widgets = <<>>
    /\ keyed = <<>>
    /\ InitSample

CallGetIconSettings ==
    /\ pc = "unit"
    /\ call' = [fn |-> "getIconSettings", branch |-> "none",
                raised |-> GetIconSettings(blob).raised,
                value |-> GetIconSettings(blob).value]
    /\ UNCHANGED <<settings, sceneName, templ, matKind, scene, saved, disk, kmat, fbx, pc,
                   args, result, raised, io, expOk, exported, validated, bakes, lastCall>>
    /\ UNCHANGED <<constVars, sideVars, histVars, validatorVars>>
    /\ UNCHANGED <<iconDir, zip, blob, payload, latest, widgets, keyed, checked>>

CallUpdateClipData(p) ==
    /\ pc = "unit"
    /\ LET r == UpdateClipDataResult(blob, p)
       IN /\ blob' = r.blob
          /\ settings' = Decoded(r.blob)
          /\ call' = [fn |-> "updateClipData", branch |-> r.branch,
                      raised |-> r.raised, value |-> <<>>]
    /\ payload' = p
    /\ latest' = IF p = <<>> THEN latest
                 ELSE [latest EXCEPT ![p.name] = IF p.enabled THEN "on" ELSE "off"]
    /\ UNCHANGED <<sceneName, templ, matKind, scene, saved, disk, kmat, fbx, pc,
                   args, result, raised, io, expOk, exported, validated, bakes, lastCall>>
    /\ UNCHANGED <<constVars, sideVars, histVars, validatorVars>>
    /\ UNCHANGED <<iconDir, zip, widgets, keyed, checked>>

CallGetAnimationData ==
    /\ pc = "unit"
    /\ call' = [fn |-> "getAnimationData", branch |-> "none",
                raised |-> GetAnimationData(blob).raised,
                value |-> GetAnimationData(blob).value]
    /\ UNCHANGED <<settings, sceneName, templ, matKind, scene, saved, disk, kmat, fbx, pc,
                   args, result, raised, io, expOk, exported, validated, bakes, lastCall>>
    /\ UNCHANGED <<constVars, sideVars, histVars, validatorVars>>
    /\ UNCHANGED <<iconDir, zip, blob, payload, latest, widgets, keyed, checked>>

NextSettings ==
    \/ CallGetIconSettings
    \/ \E p \in Payloads : CallUpdateClipData(p)
    \/ CallGetAnimationData

SpecSettings == InitSettings /\ [][NextSettings]_vars

(***************************************************************************)
(* Two callers of the functions that change the settings (saveOutputPath,  *)
(* saveSDKPath, updateClipData).  The cycle of a caller is a read          *)
(* (getIconSettings) and a write (saveIconSettings) with nothing held in   *)
(* between; the steps of the two callers happen in any order.              *)
(***************************************************************************)
Callers == 1..2

SDKPath == "/mlsdk"
OtherPath == "/out2"

\* The calls: a function and its argument, a path or a payload.
SettingsOps ==
    {[fn |-> "saveOutputPath", value |-> OtherPath, payload |-> <<>>],
     [fn |-> "saveSDKPath", value |-> SDKPath, payload |-> <<>>]}
    \cup {[fn |-> "updateClipData", value |-> "", payload |-> p] : p \in Payloads}

NotRead == [called |-> FALSE, at |-> "none", settingsData |-> <<>>, raised |-> FALSE,
            readAt |-> 0, wroteAt |-> 0]

\* The position of the next step in the order of all steps taken.
Tick ==
    1 + Cardinality({c \in Callers : cycles[c].readAt # 0})
      + Cardinality({c \in Callers : cycles[c].wroteAt # 0})

\* What the function does to the settings it has read, and whether it saves:
\* saveOutputPath lines 157-159, saveSDKPath lines 175-177, updateClipData
\* lines 1004-1046.
Modified(op, settingsData) ==
    CASE op.fn = "saveOutputPath" ->
            [save |-> TRUE, data |-> Put(settingsData, "outputPath", op.value)]
      [] op.fn = "saveSDKPath" ->
            [save |-> TRUE, data |-> Put(settingsData, "sdkPath", op.value)]
      [] op.fn = "updateClipData" ->
            [save |-> UpdateClipDataOn(settingsData, op.payload).save,
             data |-> UpdateClipDataOn(settingsData, op.payload).data]

\* saveIconSettings lines 136-138: there is an attribute to set.
HasSettingsPlug(b) == b.node /\ b.attr

\* The write with a fault: the settings are read again at the write.
WriteCycleRereading(b, op, settingsData) ==
    IF Modified(op, Decoded(b)).save
    THEN SaveIconSettings(b, Modified(op, Decoded(b)).data)
    ELSE b

\* The second half of a cycle: saveIconSettings of the modified copy of the
\* settings read in the first half.
WriteCycle(b, op, settingsData) ==
    IF Modified(op, settingsData).save
    THEN SaveIconSettings(b, Modified(op, settingsData).data)
    ELSE b

InitRace ==
    /\ blob \in StartBlobs \cup
                {TemplateBlob([outputPath |-> OutputPath,
                               animationTakes |-> <<Take(ClipNames[1], 1, 2)>>])}
    /\ settings = Decoded(blob)
    /\ iconDir = {}
    /\ latest = <<>>
    /\ widgets = <<>>
    /\ keyed = <<>>
    /\ cycles \in [Callers -> {[NotRead EXCEPT !.called = TRUE, !.at = "called"]}]
    /\ xform = <<>>
    /\ refs = <<>>
    /\ ui \in [Callers -> SettingsOps]
    /\ InitSample

RaceUnchanged ==
    /\ UNCHANGED <<sceneName, templ, matKind, scene, saved, disk, kmat, fbx, pc,
                   args, result, raised, io, expOk, exported, validated, bakes, lastCall>>
    /\ UNCHANGED <<constVars, histVars, validatorVars>>
    /\ UNCHANGED <<iconDir, zip, payload, latest, call, widgets, keyed, checked>>
    /\ UNCHANGED <<xform, refs, ui>>

\* The first half of the cycle of caller c: the guards of the function and
\* getIconSettings.  saveOutputPath and saveSDKPath return when there is no
\* template (lines 153-155, 171-173), updateClipData on an empty payload
\* (lines 999-1000); an exception of getIconSettings leaves the function.
ReadSettings(c) ==
    /\ cycles[c].at = "called"
    /\ LET op == ui[c]
           got == GetIconSettings(blob)
           returns == IF op.fn = "updateClipData" THEN op.payload = <<>> ELSE ~blob.node
       IN cycles' = [cycles EXCEPT ![c] =
              IF returns THEN [@ EXCEPT !.at = "returned"]
              ELSE IF got.raised THEN [@ EXCEPT !.at = "returned", !.raised = TRUE]
              ELSE [@ EXCEPT !.at = "read", !.settingsData = got.value,
                             !.readAt = Tick]]
    /\ UNCHANGED <<blob, settings>>
    /\ RaceUnchanged

\* The second half: the copy is modified and saved.  wroteAt stays 0 when
\* the function returns without saving or saveIconSettings finds no
\* attribute to set.
WriteSettings(c) ==
    /\ cycles[c].at = "read"
    /\ blob' = WriteCycle(blob, ui[c], cycles[c].settingsData)
    /\ settings' = Decoded(blob')
    /\ cycles' = [cycles EXCEPT ![c] =
           [@ EXCEPT !.at = "returned",
                     !.wroteAt = IF /\ Modified(ui[c], cycles[c].settingsData).save
                                    /\ HasSettingsPlug(blob)
                                 THEN Tick ELSE 0]]
    /\ RaceUnchanged

NextRace == \E c \in Callers : ReadSettings(c) \/ WriteSettings(c)

SpecRace == InitRace /\ [][NextRace]_vars

(***************************************************************************)
(* The animation step of the tool, view.py: the clip widgets and the check *)
(* of the step.                                                            *)
(***************************************************************************)
\* constants.ICON_ANIMATION_CLIPS, the durations
ClipDurations == <<2, 600, 90, 600, 300>>

ClipIndexes == 1..Len(ClipNames)

\* AnimationClipWidget.minClipFrame, maxClipFrame: the range of the spin boxes
minClipFrame == 0
maxClipFrame == 10000

\* AnimationWidget.__init__, lines 387-401: clipOffset before clip i.
RECURSIVE clipOffset(_)
clipOffset(i) ==
    IF i = 1 THEN 1 ELSE clipOffset(i - 1) + ClipDurations[i - 1] + 1

\* AnimationClipWidget.__init__: the widget as constructed, not enabled.
AnimationClipWidget(clipName, startFrame, endFrame) ==
    [clipName |-> clipName,
     clipEnabled |-> FALSE,
     startFrame |-> startFrame,
     endFrame |-> endFrame,
     maxClipSize |-> endFrame - startFrame + 1]

\* AnimationWidget.__init__, line 391
newClipWidget(i) ==
    AnimationClipWidget(ClipNames[i], clipOffset(i), clipOffset(i) + ClipDurations[i] - 1)

\* AnimationClipWidget.clipSize
clipSize(w) == w.endFrame - w.startFrame + 1

\* The attributes checkTRSForKeys asks for, in its order, and the three
\* channels of each (translateX, translateY, translateZ, ...).
TRS == <<"translate", "rotate", "scale">>
Channels == {"X", "Y", "Z"}

\* keyed[node][attr][channel] is the set of frames at which that channel of
\* the node has a key.  Keys at the frames of K on every channel:
KeyedAt(K) == [a \in Range(TRS) |-> [ch \in Channels |-> K]]

\* cmds.keyframe(node.attr, query=True, time=(frame, frame), timeChange=True):
\* one time per channel keyed at the frame, None (here <<>>) when there is
\* none.
Keyframe(node, attrName, frame) ==
    [k \in 1..Cardinality({ch \in Channels : frame \in keyed[node][attrName][ch]}) |->
        frame]

\* core.checkAttrForKeys, lines 1247-1265
checkAttrForKeys(node, attrName, frame) ==
    LET keys == Keyframe(node, attrName, frame)
    IN keys # <<>> /\ Len(keys) = 3

\* core.checkTRSForKeys, lines 1268-1284: the loop over the attributes from
\* position i, left at the first attribute that is not keyed.
RECURSIVE checkTRSForKeysFrom(_, _, _, _)
checkTRSForKeysFrom(node, frame, i, chk) ==
    IF i > Len(TRS) THEN chk
    ELSE IF ~checkAttrForKeys(node, TRS[i], frame) THEN FALSE
    ELSE checkTRSForKeysFrom(node, frame, i + 1, TRUE)

checkTRSForKeys(node, frame) == checkTRSForKeysFrom(node, frame, 1, FALSE)

\* checkTakeForAnimation with a fault: the loop is not left at a joint
\* without keys, the last joint decides.
RECURSIVE checkTakeFromNoBreak(_, _, _, _, _)
checkTakeFromNoBreak(childrenNodes, startFrame, endFrame, i, chk) ==
    IF i > Len(childrenNodes) THEN chk
    ELSE checkTakeFromNoBreak(childrenNodes, startFrame, endFrame, i + 1,
                              /\ checkTRSForKeys(childrenNodes[i], endFrame)
                              /\ checkTRSForKeys(childrenNodes[i], startFrame))

\* core.checkTakeForAnimation, lines 1306-1313: the loop over the joints
\* from position i, left at the first joint without keys at both frames.
RECURSIVE checkTakeFrom(_, _, _, _, _)
checkTakeFrom(childrenNodes, startFrame, endFrame, i, chk) ==
    IF i > Len(childrenNodes) THEN chk
    ELSE LET startChecked == checkTRSForKeys(childrenNodes[i], startFrame)
             endChecked == checkTRSForKeys(childrenNodes[i], endFrame)
         IN IF endChecked /\ startChecked
            THEN checkTakeFrom(childrenNodes, startFrame, endFrame, i + 1, TRUE)
            ELSE FALSE

\* core.checkTakeForAnimation, lines 1287-1315: False without a template,
\* else the loop over the joints below the model component.
checkTakeForAnimation(startFrame, endFrame) ==
    IF ~blob.node THEN FALSE
    ELSE checkTakeFrom(getChildren(scene["Model"], 0, TRUE, "kJoint"),
                       startFrame, endFrame, 1, FALSE)

\* AnimationWidget.check, lines 439-453: the loop from position i of the
\* order in which self.data.values() yields the widgets.
RECURSIVE checkFrom(_, _, _, _)
checkFrom(ws, order, i, chk) ==
    IF i > Len(order) THEN chk
    ELSE LET clipWidget == ws[order[i]]
             currentRange == clipWidget.endFrame - clipWidget.startFrame
             clipChecked ==
                 checkTakeForAnimation(clipWidget.startFrame, clipWidget.endFrame)
         IN IF ~clipWidget.clipEnabled
            THEN checkFrom(ws, order, i + 1, chk)
            ELSE checkFrom(ws, order, i + 1,
                           ~(currentRange > clipWidget.maxClipSize) /\ clipChecked)

\* AnimationWidget.check, lines 436-455
check(ws, order) == checkFrom(ws, order, 1, FALSE)

\* The orders in which a dict of the five clip names can yield its values.
Orders ==
    {o \in [ClipIndexes -> ClipIndexes] : \A i, j \in ClipIndexes : o[i] = o[j] => i = j}

\* Widget i enabled and its last frame edited: its span from one frame below
\* the capacity of the clip to MaxOver frames above it.
EditedWidgets(i) ==
    {[newClipWidget(i) EXCEPT !.clipEnabled = TRUE,
                              !.endFrame = clipOffset(i) + ClipDurations[i] - 1 + d] :
        d \in (-1)..MaxOver}

\* The first i widgets, at most n of them enabled.
RECURSIVE WidgetsUpTo(_, _)
WidgetsUpTo(i, n) ==
    IF i = 0 THEN {<<>>}
    ELSE {Append(ws, newClipWidget(i)) : ws \in WidgetsUpTo(i - 1, n)}
         \cup (IF n = 0 THEN {}
               ELSE {Append(ws, w) : ws \in WidgetsUpTo(i - 1, n - 1),
                                     w \in EditedWidgets(i)})

\* The takes updateClipData has stored for the enabled widgets.
RECURSIVE TakesOf(_, _)
TakesOf(ws, i) ==
    IF i > Len(ws) THEN <<>>
    ELSE (IF ws[i].clipEnabled
          THEN <<Take(ws[i].clipName, ws[i].startFrame, ws[i].endFrame)>>
          ELSE <<>>) \o TakesOf(ws, i + 1)

\* The frames at which the joints are keyed: none, the first frame of each
\* clip only, or every frame at which a widget of the family begins or ends.
KeySets ==
    {{}, {clipOffset(i) : i \in ClipIndexes},
     UNION {{w.startFrame, w.endFrame} :
                w \in UNION {EditedWidgets(i) : i \in ClipIndexes}}}

InitCheck ==
    /\ widgets \in WidgetsUpTo(Len(ClipNames), MaxTakes)
    /\ settings = (IF TakesOf(widgets, 1) = <<>> THEN <<>>
                   ELSE [animationTakes |-> TakesOf(widgets, 1)])
    /\ blob = TemplateBlob(settings)
    /\ \E K \in KeySets :
           keyed = [i \in 1..SampleModel.n |->
                       KeyedAt(IF SampleModel.kind[i] = "joint" THEN K ELSE {})]
    /\ iconDir = {}
    /\ NoSide
    /\ latest = <<>>
    /\ InitSample

\* The step's callback: AnimationWidget.check on the widgets as they are.
CallCheck(order) ==
    /\ pc = "unit"
    /\ pc' = "called"
    /\ checked' = check(widgets, order)
    /\ call' = [fn |-> "check", branch |-> "none", raised |-> FALSE, value |-> <<>>]
    /\ UNCHANGED <<settings, sceneName, templ, matKind, scene, saved, disk, kmat, fbx,
                   args, result, raised, io, expOk, exported, validated, bakes, lastCall>>
    /\ UNCHANGED <<constVars, sideVars, histVars, validatorVars>>
    /\ UNCHANGED <<iconDir, zip, blob, payload, latest, widgets, keyed>>

NextCheck == \E order \in Orders : CallCheck(order)

SpecCheck == InitCheck /\ [][NextCheck]_vars

(***************************************************************************)
(* core.checkTakeForAnimation called on its own, over the joints below the *)
(* model component and the keys of each.                                   *)
(***************************************************************************)
\* The model component: MaxJoints nodes, each a joint or a plain transform,
\* in any tree.
JointScenes ==
    {[n |-> MaxJoints, parent |-> p, kind |-> k,
      mats |-> [i \in 1..MaxJoints |-> {}], alive |-> 1..MaxJoints] :
        p \in {q \in [1..MaxJoints -> 0..MaxJoints - 1] : \A i \in 1..MaxJoints : q[i] < i},
        k \in [1..MaxJoints -> {"joint", "transform"}]}

\* A node keyed on every channel at every frame, but for one attribute at
\* one frame, where only `hits` of the three channels have a key.
KeysExcept(attrName, frame, hits) ==
    [KeyedAt(Frames) EXCEPT ![attrName] =
        [ch \in Channels |->
            IF ch \in (IF hits = 0 THEN {} ELSE {"X", "Y"}) THEN Frames
            ELSE Frames \ {frame}]]

JointKeys ==
    {KeyedAt(Frames)} \cup
    {KeysExcept(a, f, h) : a \in Range(TRS), f \in Frames, h \in {0, 2}}

InitKeys ==
    /\ settings = [outputPath |-> OutputPath]
    /\ blob = TemplateBlob(settings)
    /\ sceneName = "/work/scene.ma"
    /\ templ = [T \in ComponentSet |-> TRUE]
    /\ matKind = SampleMatKind
    /\ \E m \in JointScenes :
          /\ scene = [T \in ComponentSet |-> IF T = "Model" THEN m ELSE SamplePortal]
          /\ keyed \in {ks \in [1..MaxJoints -> JointKeys \cup {KeyedAt({})}] :
                          \A i \in 1..MaxJoints :
                              ks[i] = KeyedAt({}) <=> m.kind[i] # "joint"}
    /\ disk = [T \in ComponentSet |-> {}]
    /\ pc = "unit"
    /\ env = NoEnv
    /\ tempTextures = {}
    /\ iconDir = {}
    /\ latest = <<>>
    /\ widgets = <<>>
    /\ NoSide
    /\ InitCommon

CallCheckTakeForAnimation(startFrame, endFrame) ==
    /\ pc = "unit"
    /\ pc' = "called"
    /\ checked' = checkTakeForAnimation(startFrame, endFrame)
    /\ call' = [fn |-> "checkTakeForAnimation", branch |-> "none", raised |-> FALSE,
                value |-> <<startFrame, endFrame>>]
    /\ UNCHANGED <<settings, sceneName, templ, matKind, scene, saved, disk, kmat, fbx,
                   args, result, raised, io, expOk, exported, validated, bakes, lastCall>>
    /\ UNCHANGED <<constVars, sideVars, histVars, validatorVars>>
    /\ UNCHANGED <<iconDir, zip, blob, payload, latest, widgets, keyed>>

NextKeys == \E f \in ClipFrames : CallCheckTakeForAnimation(f[1], f[2])

SpecKeys == InitKeys /\ [][NextKeys]_vars

(***************************************************************************)
(* core.bakeTransforms, lines 539-567, on the model component.  A local    *)
(* transform is an integer offset, 0 the identity; the world transform of  *)
(* a node is the sum of the local transforms from the node up.             *)
(***************************************************************************)
\* The trees of MaxNodes nodes that are plain transforms, joints or mesh
\* shapes.
XformScenes ==
    {t \in TreeScenes :
        WellFormed(t) /\ \A i \in 1..t.n : t.kind[i] \in {"transform", "joint", "mesh"}}

\* Node i has the local transform 2^i or the identity; a shape has none.
LocalsOf(s) ==
    {[i \in 0..s.n |-> IF i \in S THEN 2^i ELSE 0] :
        S \in SUBSET {i \in 0..s.n : i = 0 \/ s.kind[i] # "mesh"}}

RECURSIVE World(_, _, _)
World(s, local, i) ==
    IF i = -1 THEN 0
    ELSE local[i] + (IF i = 0 THEN 0 ELSE World(s, local, s.parent[i]))

\* cmds.parent(nodes, world=True): the nodes keep their world transform.
ParentWorld(st, nodes) ==
    [st EXCEPT !.s = ParentToWorld(st.s, nodes),
               !.local = [i \in DOMAIN @ |->
                             IF i \in nodes THEN World(st.s, st.local, i) ELSE @[i]]]

\* cmds.parent(nodes, nodePath): the nodes keep their world transform.
ParentUnder(st, nodes, nodePath) ==
    [st EXCEPT !.s = [@ EXCEPT !.parent = [i \in DOMAIN @ |->
                                              IF i \in nodes THEN nodePath ELSE @[i]]],
               !.local = [i \in DOMAIN @ |->
                             IF i \in nodes
                             THEN World(st.s, st.local, i) - World(st.s, st.local, nodePath)
                             ELSE @[i]]]

\* cmds.makeIdentity(nodePath, apply=True, translate=True, rotate=True,
\* scale=True)
MakeIdentity(st, nodePath) == [st EXCEPT !.local = [@ EXCEPT ![nodePath] = 0]]

\* hasFn(kJoint) of a transform of the list; 0 is the component root.
IsJoint(s, transform) == transform # 0 /\ s.kind[transform] = "joint"

\* The body of the loop of bakeTransforms, lines 549-567, for one transform.
\* When the transform has no transform below it, childrenNodePaths is the
\* empty list: maya.cmds then takes the command to have been given no nodes,
\* and cmds.parent either raises RuntimeError or works on the nodes that are
\* selected.  empty.raise and empty.sel are that outcome.
BakeTransform(st, transform, empty) ==
    IF st.raised THEN st
    ELSE IF IsJoint(st.s, transform) THEN st
    ELSE IF getMeshes(st.s, transform) # <<>> THEN st
    ELSE LET children == Range(getChildren(st.s, transform, FALSE, "kTransform"))
             nodes == IF children # {} THEN children ELSE empty.sel
             detached == MakeIdentity(ParentWorld(st, nodes), transform)
         IN IF children = {} /\ (empty.raise \/ nodes = {})
            THEN [st EXCEPT !.raised = TRUE]
            ELSE IF \E i \in nodes : IsUnder(st.s, transform, i)
            THEN [detached EXCEPT !.raised = TRUE]
            ELSE ParentUnder(detached, nodes, transform)

\* The loop of bakeTransforms from position i of the list of transforms.
RECURSIVE BakeTransformsFrom(_, _, _, _)
BakeTransformsFrom(st, transforms, i, empty) ==
    IF i > Len(transforms) THEN st
    ELSE BakeTransformsFrom(BakeTransform(st, transforms[i], empty), transforms, i + 1,
                            empty)

\* core.bakeTransforms on the tree s with the local transforms `local`: the
\* transforms are the component root and every transform below it, found
\* before the loop starts.
BakeTransformsResult(s, local, empty) ==
    BakeTransformsFrom([s |-> s, local |-> local, raised |-> FALSE],
                       <<0>> \o getChildren(s, 0, TRUE, "kTransform"), 1, empty)

\* What cmds.parent does with an empty list of nodes.
EmptyOutcomes(s) ==
    {[raise |-> TRUE, sel |-> {}]} \cup
    {[raise |-> FALSE, sel |-> {i}] : i \in {j \in 1..s.n : s.kind[j] # "mesh"}}

InitXform ==
    /\ settings = [outputPath |-> OutputPath]
    /\ blob = TemplateBlob(settings)
    /\ sceneName = "/work/scene.ma"
    /\ templ = [T \in ComponentSet |-> TRUE]
    /\ matKind = SampleMatKind
    /\ \E m \in XformScenes :
          /\ scene = [T \in ComponentSet |-> IF T = "Model" THEN m ELSE SamplePortal]
          /\ \E l \in LocalsOf(m) :
                xform = [called |-> FALSE, raised |-> FALSE, local |-> l,
                         before |-> [s |-> m, local |-> l]]
    /\ disk = [T \in ComponentSet |-> {}]
    /\ pc = "unit"
    /\ env = NoEnv
    /\ tempTextures = {}
    /\ iconDir = {}
    /\ latest = <<>>
    /\ widgets = <<>>
    /\ keyed = <<>>
    /\ cycles = <<>>
    /\ refs = <<>>
    /\ ui = <<>>
    /\ InitCommon

CallBakeTransforms(empty) ==
    /\ pc = "unit"
    /\ pc' = "called"
    /\ LET r == BakeTransformsResult(scene["Model"], xform.local, empty)
       IN /\ scene' = [scene EXCEPT !["Model"] = r.s]
          /\ xform' = [xform EXCEPT !.called = TRUE, !.raised = r.raised,
                                    !.local = r.local]
    /\ UNCHANGED <<settings, sceneName, templ, matKind, saved, disk, kmat, fbx,
                   args, result, raised, io, expOk, exported, validated, bakes, lastCall>>
    /\ UNCHANGED <<constVars, histVars, validatorVars, unitVars>>
    /\ UNCHANGED <<cycles, refs, ui>>

NextXform == \E empty \in EmptyOutcomes(scene["Model"]) : CallBakeTransforms(empty)

SpecXform == InitXform /\ [][NextXform]_vars

(***************************************************************************)
(* utils.importSceneReferences, lines 229-244.  A file reference is        *)
(*   [id, loaded, nested]                                                  *)
(* with `nested` the references of the referenced file itself; they become *)
(* references of the scene when the file is imported.  cmds.file(q=True,   *)
(* r=True) lists the references of the scene, loaded or not.               *)
(***************************************************************************)
\* The references without nested ones, and those with at most one.
LeafRefs(ids) == {[id |-> i, loaded |-> l, nested |-> <<>>] : i \in ids, l \in BOOLEAN}

TopRefs(i) ==
    LeafRefs({i}) \cup
    {[id |-> i, loaded |-> l, nested |-> <<n>>] : l \in BOOLEAN, n \in LeafRefs({i + MaxRefs})}

\* The lists of at most k references of a scene.
RECURSIVE RefLists(_)
RefLists(k) ==
    IF k = 0 THEN {<<>>}
    ELSE RefLists(k - 1) \cup
         {Append(q, r) : q \in {x \in RefLists(k - 1) : Len(x) = k - 1}, r \in TopRefs(k)}

\* cmds.file(ref, ir=True): the reference leaves the list, the references of
\* the imported file join it.
ImportReference(files, ref) ==
    SelectSeq(files, LAMBDA r : r.id # ref.id) \o ref.nested

InitRefs ==
    /\ \E q \in RefLists(MaxRefs) :
          refs = [files |-> q, pc |-> "while", list |-> <<>>, i |-> 0, imported |-> {}]
    /\ settings = [outputPath |-> OutputPath]
    /\ blob = TemplateBlob(settings)
    /\ iconDir = {}
    /\ latest = <<>>
    /\ widgets = <<>>
    /\ keyed = <<>>
    /\ cycles = <<>>
    /\ xform = <<>>
    /\ ui = <<>>
    /\ InitSample

RefsUnchanged ==
    /\ UNCHANGED <<settings, sceneName, templ, matKind, scene, saved, disk, kmat, fbx, pc,
                   args, result, raised, io, expOk, exported, validated, bakes, lastCall>>
    /\ UNCHANGED <<constVars, histVars, validatorVars, unitVars>>
    /\ UNCHANGED <<cycles, xform, ui>>

\* Line 235: the test of the while loop, and line 236 when it is entered.
WhileReferences ==
    /\ refs.pc = "while"
    /\ refs' = IF refs.files = <<>>
               THEN [refs EXCEPT !.pc = "returned"]
               ELSE [refs EXCEPT !.pc = "for", !.list = refs.files, !.i = 1]
    /\ RefsUnchanged

\* Lines 237-240: one reference of the list; it is imported when it is
\* loaded, and passed over when it is not.
ForReference ==
    /\ refs.pc = "for"
    /\ refs.i <= Len(refs.list)
    /\ LET ref == refs.list[refs.i]
       IN refs' = IF ref.loaded
                  THEN [refs EXCEPT !.files = ImportReference(@, ref),
                                    !.imported = @ \cup {ref.id},
                                    !.i = @ + 1]
                  ELSE [refs EXCEPT !.i = @ + 1]
    /\ RefsUnchanged

\* Lines 242-244: after the list, the loop is left only when the scene has
\* no reference.
BreakReferences ==
    /\ refs.pc = "for"
    /\ refs.i > Len(refs.list)
    /\ refs' = IF refs.files = <<>>
               THEN [refs EXCEPT !.pc = "returned"]
               ELSE [refs EXCEPT !.pc = "while"]
    /\ RefsUnchanged

NextRefs == WhileReferences \/ ForReference \/ BreakReferences

\* The function runs on: each step that can be taken is taken.
SpecRefs == InitRefs /\ [][NextRefs]_vars /\ WF_vars(NextRefs)

(***************************************************************************)
(* The two buttons that bundle the icon: `Export` of the finalize step     *)
(* (view.py lines 1242-1261) and `Upload to ML Device` of the preview step *)
(* (lines 1093-1120).  Each handler calls buildIcon(validate=True,         *)
(* export=True, cleanup=False), whose steps are those of the pipeline.     *)
(*   ui = [action, pc, zipped, sent, previewed, message]                   *)
(***************************************************************************)
SDKDir == "/mlsdk"

\* The settings a handler can find: those of the pipeline, with or without
\* the MLSDK path.
UISettings ==
    PipelineSettings \cup {Put(d, "sdkPath", SDKDir) : d \in PipelineSettings}

NoAction ==
    [action |-> "none", pc |-> "ready", zipped |-> FALSE, sent |-> FALSE,
     previewed |-> FALSE, message |-> ""]

InitUI ==
    /\ settings \in UISettings
    /\ sceneName \in {"", "/work/scene.ma"}
    /\ templ \in [ComponentSet -> BOOLEAN]
    /\ matKind = SampleMatKind
    /\ scene = [T \in ComponentSet |-> IF T = "Model" THEN SampleModel ELSE SamplePortal]
    /\ disk = [T \in ComponentSet |-> {}]
    /\ pc = "idle"
    /\ env = NoEnv
    /\ tempTextures = {}
    /\ InitCommon
    /\ blob = TemplateBlob(settings)
    /\ iconDir = {}
    /\ latest = <<>>
    /\ widgets = <<>>
    /\ keyed = <<>>
    /\ cycles = <<>>
    /\ xform = <<>>
    /\ refs = <<>>
    /\ ui = NoAction

\* What a step of a handler outside buildIcon leaves alone.
UIUnchanged ==
    /\ UNCHANGED <<settings, sceneName, templ, matKind, scene, saved, disk, kmat, fbx, pc,
                   args, result, raised, io, expOk, exported, validated, bakes, lastCall>>
    /\ UNCHANGED <<constVars, histVars, validatorVars>>
    /\ UNCHANGED <<iconDir, blob, payload, latest, call, widgets, keyed, checked>>
    /\ UNCHANGED <<cycles, xform, refs>>

\* createIconZip on the output of the build: the files of Icon/Model and
\* Icon/Portal with one of the four extensions, under their folder's name.
ZipOfIcon ==
    [called |-> TRUE, raised |-> FALSE,
     entries |-> UNION {{<<T, f.name>> : f \in {g \in disk[T] : g.name # OtherFile}} :
                           T \in ComponentSet}]

\* export, lines 1243-1247: the scene has to be saved.
ClickExport ==
    /\ ui.pc = "ready"
    /\ ui' = IF sceneName = ""
             THEN [ui EXCEPT !.action = "export", !.pc = "end", !.message = "File Not Saved"]
             ELSE [ui EXCEPT !.action = "export", !.pc = "build"]
    /\ UNCHANGED zip
    /\ UIUnchanged

\* showPreview, lines 1096-1106: both paths have to be set.
ClickPreview ==
    /\ ui.pc = "ready"
    /\ ui' = IF "sdkPath" \notin DOMAIN settings
             THEN [ui EXCEPT !.action = "preview", !.pc = "end",
                             !.message = "Set the MLSDK Path"]
             ELSE IF "outputPath" \notin DOMAIN settings
             THEN [ui EXCEPT !.action = "preview", !.pc = "end",
                             !.message = "Set the Output Folder"]
             ELSE [ui EXCEPT !.action = "preview", !.pc = "build"]
    /\ UNCHANGED zip
    /\ UIUnchanged

\* Lines 1108 and 1249: core.buildIcon(validate=True, export=True,
\* cleanup=False), step by step.
BuildIconOfAction ==
    /\ ui.pc = "build"
    /\ Next
    /\ args'.validate
    /\ ~args'.cleanup

\* export, lines 1250-1261, once buildIcon has returned.
ExportBundle ==
    /\ ui.action = "export"
    /\ ui.pc = "build"
    /\ pc = "done"
    /\ IF ~result
       THEN /\ ui' = [ui EXCEPT !.pc = "end", !.message = "Export Failed"]
            /\ UNCHANGED zip
       ELSE /\ zip' = ZipOfIcon
            /\ ui' = [ui EXCEPT !.pc = "end", !.zipped = TRUE,
                                !.message = "Icon Export Completed"]
    /\ UIUnchanged

\* showPreview, lines 1108-1110: the value of buildIcon is not kept.
PreviewBundle ==
    /\ ui.action = "preview"
    /\ ui.pc = "build"
    /\ pc = "done"
    /\ zip' = ZipOfIcon
    /\ ui' = [ui EXCEPT !.pc = "send", !.zipped = TRUE]
    /\ UIUnchanged

\* showPreview, lines 1112-1120, and core.openIconPreviewer, lines
\* 1100-1176: the previewer returns a message before it sends ("message"),
\* runs send-icon ("sent"), or send-icon fails and the exception leaves the
\* handler ("raise").
PreviewSend(outcome) ==
    /\ ui.pc = "send"
    /\ outcome \in {"message", "sent", "raise"}
    /\ ui' = CASE outcome = "message" ->
                    [ui EXCEPT !.pc = "end", !.message = "Preview Error"]
               [] outcome = "sent" ->
                    [ui EXCEPT !.pc = "end", !.sent = TRUE, !.previewed = TRUE]
               [] outcome = "raise" ->
                    [ui EXCEPT !.pc = "end", !.sent = TRUE]
    /\ UNCHANGED zip
    /\ UIUnchanged

NextUI ==
    \/ ClickExport
    \/ ClickPreview
    \/ BuildIconOfAction
    \/ ExportBundle
    \/ PreviewBundle
    \/ \E outcome \in {"message", "sent", "raise"} : PreviewSend(outcome)

SpecUI == InitUI /\ [][NextUI]_vars

(***************************************************************************)
(* Claims.                                                                 *)
(***************************************************************************)
DirOps(T) == {<<"rmtree", T>>, <<"makedirs", T>>, <<"write", T>>}

FreshNames(T) == {f.name : f \in {g \in disk[T] : g.fresh}}

\* C1: in a build with validate=True the validator runs, and the build ends
\* Validated (buildIcon returns True), only after exportIconComponent has
\* returned True for both Model and Portal in that build; and when exportIcon
\* returns False the build ends Failed: buildIcon returns False.
C1_ValidatedOnlyAfterExport ==
    /\ validated # "no" => expOk = ComponentSet
    /\ (pc = "done" /\ args.validate /\ result) => expOk = ComponentSet
    /\ (pc = "done" /\ exported = "False") => ~result

\* C2: exportIcon returns True only if exportIconComponent completed without
\* raising for both Model and Portal, and nothing raised inside the temporary
\* scene.
C2_ExportTrueOnlyIfBothExported ==
    exported = "True" => (expOk = ComponentSet /\ ~raised)

\* C3: whenever exportIconComponent(T) returns True, the directory Icon/T
\* holds the manifest T.kmat and the interchange file T.fbx written by that
\* call.
C3_TrueMeansKmatAndFbxWritten ==
    lastCall.ret = "True" => {KmatFile, FbxFile} \subseteq FreshNames(lastCall.T)

\* C4: when the settings have no outputPath, a build ends as a failure and
\* has performed no I/O: no scene save, no temporary copy, no deletion or
\* creation of an output directory, no file written.
C4_NoOutputPathNoIO ==
    ("outputPath" \notin DOMAIN settings /\ pc = "done") => (~result /\ io = {})

\* C5: when the Model or the Portal component is missing from the template,
\* the build aborts with a failure before any I/O on the output: no component
\* directory is deleted or created and no file is written for either
\* component.
C5_MissingComponentNoIO ==
    ((~templ["Model"] \/ ~templ["Portal"]) /\ pc = "done") =>
        /\ exported # "True"
        /\ \A T \in ComponentSet : io \cap DirOps(T) = {}

\* C6: after an exportIconComponent(T) that returns True, every file in
\* Icon/T was written by that call; no file that was there before the call
\* is still present.
C6_NoPriorFileAfterExport ==
    lastCall.ret = "True" => \A f \in disk[lastCall.T] : f.fresh

\* The supported materials the meshes of a component reference.
ReferencedMaterials(s) ==
    {m \in Materials :
        /\ matKind[m] # "unsupported"
        /\ \E i \in 1..s.n : i \in s.alive /\ s.kind[i] = "mesh" /\ m \in s.mats[i]}

\* The material a manifest entry is for.
EntryMaterial(e) == e.name[2]

Textured(m) == matKind[m] \in {"texEmpty", "texMissing", "texOk"}

\* C7 as stated: the manifest written by exportIconComponent has exactly one
\* entry per distinct supported material of the component's meshes, for every
\* combination of textured and untextured materials.
C7_OneEntryPerMaterial ==
    lastCall.ret = "True" =>
        LET list == kmat[lastCall.T]
        IN /\ Len(list) = Cardinality(ReferencedMaterials(lastCall.before))
           /\ {EntryMaterial(list[i]) : i \in DOMAIN list} = ReferencedMaterials(lastCall.before)

\* C7 amended: the manifest has no two entries for the same material, and
\* has exactly one entry for each distinct supported material of the
\* component's meshes except those whose color input is a file node with an
\* empty file path, which have no entry.
C7_OneEntryPerMaterialWithPath ==
    lastCall.ret = "True" =>
        LET list == kmat[lastCall.T]
            listed == {m \in ReferencedMaterials(lastCall.before) : matKind[m] # "texEmpty"}
        IN /\ Len(list) = Cardinality(listed)
           /\ {EntryMaterial(list[i]) : i \in DOMAIN list} = listed
           /\ \A i, j \in DOMAIN list :
                 EntryMaterial(list[i]) = EntryMaterial(list[j]) => i = j

\* C7 witness: one material bound to two meshes, a textured and an untextured
\* material in the manifest.
C7_Witness ==
    /\ lastCall.ret = "True"
    /\ \E i, j \in 1..lastCall.before.n :
          i # j /\ lastCall.before.mats[i] \cap lastCall.before.mats[j] # {}
    /\ \E a, b \in DOMAIN kmat[lastCall.T] :
          /\ "albedo" \in DOMAIN kmat[lastCall.T][a]
          /\ "albedo" \notin DOMAIN kmat[lastCall.T][b]

\* C8 as stated: every entry of the materials list of a written manifest
\* carries exactly one of an albedo texture path and a color.
C8_AlbedoXorColor ==
    \A T \in ComponentSet : \A i \in DOMAIN kmat[T] :
        ("albedo" \in DOMAIN kmat[T][i]) # ("color" \in DOMAIN kmat[T][i])

\* C8 amended: every entry carries a color; it carries an albedo texture
\* path exactly when its material is textured, and its color is then the
\* default white; the entry of an untextured material carries the material's
\* flat color and no albedo.
C8_AlbedoIffTextured ==
    \A T \in ComponentSet : \A i \in DOMAIN kmat[T] :
        LET e == kmat[T][i]
        IN /\ "color" \in DOMAIN e
           /\ ("albedo" \in DOMAIN e) <=> Textured(EntryMaterial(e))
           /\ e.color = (IF Textured(EntryMaterial(e))
                         THEN <<"white">> ELSE <<"colorOf", EntryMaterial(e)>>)

\* C8 witness: a written manifest with a textured and an untextured entry.
C8_Witness ==
    /\ lastCall.ret = "True"
    /\ \E a, b \in DOMAIN kmat[lastCall.T] :
          /\ Textured(EntryMaterial(kmat[lastCall.T][a]))
          /\ ~Textured(EntryMaterial(kmat[lastCall.T][b]))

\* The nodes of the scene s that are of an unsupported type or lie below one.
UnderUnsupported(s) ==
    {j \in 1..s.n : \E i \in 1..s.n :
        s.kind[i] \in Range(INVALID_NODE_TYPES) /\ IsUnder(s, j, i)}

\* C9: for every node of an unsupported type under the component, neither
\* the node nor any of its descendants is in the node set handed to the
\* interchange-file export, nor in the file written.
C9_NoUnsupportedExported ==
    lastCall.ret = "True" =>
        /\ lastCall.handed \cap UnderUnsupported(lastCall.before) = {}
        /\ fbx[lastCall.T] \cap UnderUnsupported(lastCall.before) = {}

\* C9 witness: a successful export of a component with a joint below a
\* constraint, and with a supported node handed to the export.
C9_Witness ==
    /\ lastCall.ret = "True"
    /\ lastCall.handed # {}
    /\ \E i, j \in 1..lastCall.before.n :
          /\ lastCall.before.kind[i] \in Range(INVALID_NODE_TYPES)
          /\ lastCall.before.parent[j] = i
          /\ lastCall.before.kind[j] = "joint"

\* The take list bakeAnimation was called with.
SettingsTakes == Get(settings, "animationTakes", <<>>)

Min(S) == CHOOSE x \in S : \A y \in S : x <= y
Max(S) == CHOOSE x \in S : \A y \in S : y <= x

\* The frames a bake pass samples.
PassFrames(pass) == pass[1]..pass[2]

\* C10 as stated: with a non-empty take list, bakeAnimation performs a single
\* bake pass, over the window [min startFrame, max endFrame], which contains
\* the range of every take.
C10_SingleUnionPass ==
    (bakes.called /\ SettingsTakes # <<>>) =>
        /\ Len(bakes.passes) = 1
        /\ bakes.passes[1] =
              <<Min({SettingsTakes[i].startFrame : i \in DOMAIN SettingsTakes}),
                Max({SettingsTakes[i].endFrame : i \in DOMAIN SettingsTakes})>>

\* C10 amended: with a non-empty take list, bakeAnimation performs one bake
\* pass per take, in list order, each over that take's own
\* [startFrame, endFrame]; every frame of every take is sampled by a pass,
\* and every pass lies within [min startFrame, max endFrame].
C10_OnePassPerTake ==
    (bakes.called /\ SettingsTakes # <<>>) =>
        /\ Len(bakes.passes) = Len(SettingsTakes)
        /\ \A i \in DOMAIN SettingsTakes :
              /\ bakes.passes[i] = <<SettingsTakes[i].startFrame, SettingsTakes[i].endFrame>>
              /\ \A f \in SettingsTakes[i].startFrame..SettingsTakes[i].endFrame :
                    \E p \in DOMAIN bakes.passes : f \in PassFrames(bakes.passes[p])
        /\ \A p \in DOMAIN bakes.passes :
              PassFrames(bakes.passes[p]) \subseteq
                  Min({SettingsTakes[i].startFrame : i \in DOMAIN SettingsTakes})
                  ..Max({SettingsTakes[i].endFrame : i \in DOMAIN SettingsTakes})

\* C10 witness: bakeAnimation has run on two takes whose ranges do not touch.
C10_Witness ==
    /\ bakes.called
    /\ Len(SettingsTakes) = 2
    /\ SettingsTakes[1].startFrame <= SettingsTakes[1].endFrame
    /\ SettingsTakes[1].endFrame + 1 < SettingsTakes[2].startFrame
    /\ SettingsTakes[2].startFrame <= SettingsTakes[2].endFrame
    /\ Len(bakes.passes) = 2

\* C11: when the settings hold no animation takes (animationTakes is the
\* empty list, or the key was never written), bakeAnimation bakes nothing:
\* no bake pass runs and no node is baked.
C11_NoTakesNoBake ==
    (bakes.called /\ SettingsTakes = <<>>) =>
        (bakes.passes = <<>> /\ bakes.nodes = {})

\* C12: after exportIcon has run twice in a row on an unchanged scene with
\* unchanged settings, in the same environment, the file names under
\* Icon/Model and Icon/Portal and the material entries of the manifests are
\* those left by the first run; and a run leaves the authored scene and the
\* settings as they were.
C12_SecondRunSameOutput ==
    /\ (run = 2 /\ pc = "done") =>
          \A T \in ComponentSet :
             /\ OutputNames(T) = first.names[T]
             /\ Range(kmat[T]) = first.kmat[T]
    /\ (run >= 1 /\ pc = "done") =>
          (scene = start.scene /\ settings = start.settings)

\* The errors of line i of the output, when the line is an object.
LineErrors(line) ==
    IF "errors" \in DOMAIN line.value THEN line.value.errors ELSE <<>>

\* The errors arrays of the first n lines, one after the other.
RECURSIVE ErrorsUpTo(_, _)
ErrorsUpTo(lines, n) ==
    IF n = 0 THEN <<>> ELSE ErrorsUpTo(lines, n - 1) \o LineErrors(lines[n])

AllObjects(lines) == \A i \in DOMAIN lines : lines[i].kind = "object"

\* C13: when every line of the validator's output is a JSON object,
\* parseValidationOutput returns, without raising, the concatenation in line
\* order of the errors arrays of the lines that have one; lines without an
\* errors key contribute nothing, and one line holding the one error E1
\* decodes to the one-element list of E1.
C13_ErrorsConcatenated ==
    (decoded.called /\ AllObjects(validatorOut.lines)) =>
        /\ ~decoded.raised
        /\ decoded.errors = ErrorsUpTo(validatorOut.lines, Len(validatorOut.lines))
        /\ validatorOut.lines = <<ObjectLine([errors |-> <<ValidationErrors[1]>>])>>
              => decoded.errors = <<ValidationErrors[1]>>

\* C13 witness: two lines with an errors array each have been decoded.
C13_Witness ==
    /\ decoded.called
    /\ Len(validatorOut.lines) = 2
    /\ validatorOut.lines[1] = ObjectLine([errors |-> <<ValidationErrors[1]>>])
    /\ validatorOut.lines[2] = ObjectLine([errors |-> <<ValidationErrors[2]>>])
    /\ Len(decoded.errors) = 2

\* C14: when a line of the output the validator failed with is not valid
\* JSON, parseValidationOutput raises: it returns no list, partial or
\* whole, validateIcon returns nothing, and the build ends with buildIcon
\* returning False.
C14_InvalidLineRaises ==
    (decoded.called /\ \E i \in DOMAIN validatorOut.lines :
                          validatorOut.lines[i].kind \in {"text", "empty"}) =>
        /\ decoded.raised
        /\ decoded.errors = <<>>
        /\ returned = <<>>
        /\ validated = "exception"
        /\ pc = "done" /\ ~result

\* C14 witness: a line with an error, then a line that is not JSON.
C14_Witness ==
    /\ decoded.called
    /\ Len(validatorOut.lines) = 2
    /\ validatorOut.lines[1] = ObjectLine([errors |-> <<ValidationErrors[1]>>])
    /\ validatorOut.lines[2] = TextLine
    /\ pc = "done"

\* C15 as stated: when the validator exits non-zero with structured output,
\* validateIcon hands the decoded errors back together with the failure
\* result.
C15_ErrorsReturned ==
    (validated = "errors" /\ decoded.errors # <<>>) =>
        /\ Len(returned) = 2
        /\ returned[1] = FALSE
        /\ returned[2] = decoded.errors

\* C15 amended: when the validator exits non-zero with structured output,
\* validateIcon hands back the boolean False and nothing else, and buildIcon
\* returns False; the decoded errors are written to the log, code and
\* message of each in order, and are not part of the result.
C15_ErrorsOnlyLogged ==
    validated = "errors" =>
        /\ returned = <<FALSE>>
        /\ pc = "done" /\ ~result
        /\ Len(logged) = Len(decoded.errors)
        /\ \A i \in DOMAIN logged :
              logged[i] = <<decoded.errors[i].code, decoded.errors[i].message>>

\* C15 witness: the validator failed with two decodable errors.
C15_Witness ==
    /\ validated = "errors"
    /\ validatorOut.rc # 0
    /\ Len(decoded.errors) = 2
    /\ pc = "done"

\* The files directly in Icon/<T> that have one of the four extensions.
ComponentFiles(T) ==
    {f \in iconDir : f.dir = <<T>> /\ Splitext(f.name) \in {"kmat", "fbx", "png", "jpg"}}

\* C16 as stated: for every content of the Icon directory, the entries of
\* the archive written by createIconZip are exactly Model/<f> for the files
\* f of Icon/Model with extension .kmat, .fbx, .png or .jpg and Portal/<f>
\* likewise; no entry lies outside the Model/ and Portal/ folders.
C16_EntriesAreComponentFiles ==
    (zip.called /\ ~zip.raised) =>
        /\ zip.entries = {<<f.dir[1], f.name>> :
                             f \in ComponentFiles("Model") \cup ComponentFiles("Portal")}
        /\ \A e \in zip.entries : e[1] \in ComponentSet

\* C16 amended: the entries of the archive are <folder>/<f> for every file
\* f at any depth below Icon with extension .kmat, .fbx, .png or .jpg,
\* <folder> being the name of the folder that holds the file ("Icon" for a
\* file of the Icon directory itself); a file with any other extension is
\* never included; and when all files of Icon lie directly in Icon/Model or
\* Icon/Portal, the entries are exactly Model/<f> and Portal/<f> of the
\* files with those extensions.
C16_EntriesAreParentAndName ==
    (zip.called /\ ~zip.raised) =>
        /\ \A f \in iconDir :
              Splitext(f.name) \in {"kmat", "fbx", "png", "jpg"} =>
                  <<IF f.dir = <<>> THEN "Icon" ELSE f.dir[Len(f.dir)], f.name>> \in zip.entries
        /\ \A e \in zip.entries :
              \E f \in iconDir :
                 /\ f.name = e[2]
                 /\ Splitext(f.name) \in {"kmat", "fbx", "png", "jpg"}
                 /\ e[1] = (IF f.dir = <<>> THEN "Icon" ELSE f.dir[Len(f.dir)])
        /\ (\A f \in iconDir : f.dir \in {<<"Model">>, <<"Portal">>}) =>
              zip.entries = {<<f.dir[1], f.name>> :
                                f \in ComponentFiles("Model") \cup ComponentFiles("Portal")}

\* C16 witness: an archive written from a component directory holding a
\* manifest and a text file.
C16_Witness ==
    /\ zip.called /\ ~zip.raised
    /\ iconDir = {[dir |-> <<"Model">>, name |-> <<"Model", "kmat">>],
                  [dir |-> <<"Model">>, name |-> <<"notes", "txt">>]}
    /\ zip.entries = {<<"Model", <<"Model", "kmat">>>>}

\* C17: getIconSettings returns the empty settings and raises no error
\* whenever the iconSettings blob is absent (no template node, attribute
\* missing, empty string) or its content is not parsable as JSON.
C17_AbsentBlobEmptySettings ==
    (call.fn = "getIconSettings"
        /\ (~blob.node \/ ~blob.attr \/ blob.text.kind \in {"empty", "text"})) =>
        (~call.raised /\ call.value = <<>>)

\* The takes stored on the template.
StoredTakes == Get(Decoded(blob), "animationTakes", <<>>)

\* A template node with its iconSettings attribute, holding no take when
\* the calls began.
EmptyAtStart ==
    /\ blob.node /\ blob.attr
    /\ Get(start.settings, "animationTakes", <<>>) = <<>>

\* C18: after any sequence of updateClipData calls on a template that
\* started with empty settings, animationTakes holds at most one take per
\* name, holds exactly the names whose latest payload had enabled=true, and
\* no stored take has an 'enabled' field; and a call with enabled=false
\* removes the take of that name and leaves every other take, and the order
\* of the others, unchanged.
C18_TakesFollowLatestPayloads ==
    /\ [](EmptyAtStart =>
            /\ \A i, j \in DOMAIN StoredTakes :
                  StoredTakes[i].name = StoredTakes[j].name => i = j
            /\ {StoredTakes[i].name : i \in DOMAIN StoredTakes}
                  = {n \in EditedClips : latest[n] = "on"}
            /\ \A i \in DOMAIN StoredTakes :
                  DOMAIN StoredTakes[i] = {"name", "startFrame", "endFrame"})
    /\ [][(EmptyAtStart /\ call'.fn = "updateClipData" /\ payload' # <<>>) =>
             (~payload'.enabled =>
                 StoredTakes' = SelectSeq(StoredTakes,
                                          LAMBDA t : t.name # payload'.name))]_vars

\* C18 witness: of three stored takes the middle one has been removed.
C18_Witness ==
    /\ EmptyAtStart
    /\ call.fn = "updateClipData" /\ call.branch = "removed"
    /\ Len(StoredTakes) = 2
    /\ \E n \in EditedClips : latest[n] = "off"
    /\ \A n \in EditedClips : latest[n] # "none"
    /\ payload.name \notin {StoredTakes[1].name, StoredTakes[2].name}

\* C19: updateClipData with enabled=true for a name that is already in
\* animationTakes sets that take's startFrame and endFrame to the payload's
\* values: getAnimationData then returns the payload's frames for the name.
C19_UpdateSetsFrames ==
    (call.fn = "updateClipData" /\ call.branch = "updated") =>
        /\ ~GetAnimationData(blob).raised
        /\ GetAnimationData(blob).value[payload.name]
              = [startFrame |-> payload.startFrame, endFrame |-> payload.endFrame]

\* C20: the check of the animation step fails for every enabled clip whose
\* frame span endFrame - startFrame + 1 exceeds the capacity of its clip name,
\* and does not fail on the span for a span up to the capacity: with every
\* joint keyed at every frame (so that only the span can fail the step), the
\* check returns True exactly when no enabled clip is longer than its
\* capacity and some clip is enabled.
Capacity(clipName) ==
    ClipDurations[CHOOSE i \in ClipIndexes : ClipNames[i] = clipName]

EnabledWidgets == {i \in DOMAIN widgets : widgets[i].clipEnabled}

AllKeyed ==
    \A i \in EnabledWidgets :
        checkTakeForAnimation(widgets[i].startFrame, widgets[i].endFrame)

C20_CheckFailsOverCapacity ==
    (call.fn = "check" /\ AllKeyed /\ EnabledWidgets # {})
        => (checked <=> \A i \in EnabledWidgets :
                            clipSize(widgets[i]) <= Capacity(widgets[i].clipName))

\* C21: when buildIcon is called with cleanup=True the exported artifacts
\* (the output of Icon/Model and Icon/Portal) are deleted at the end of the
\* build, whether the build ended validated or failed; with cleanup=False
\* they are kept.  Stated for a build with validation and for the output of
\* the components this build exported.
C21_CleanupDeletesArtifacts ==
    (pc = "done" /\ args.validate /\ args.cleanup) => \A T \in expOk : disk[T] = {}

\* C22: the settings are changed by a full read-modify-write with no lock.
\* When the cycles of two callers interleave (each reads before the other
\* writes) the blob ends as the copy of the last writer and the change of the
\* earlier writer is lost; when one cycle follows the other, both changes
\* are there at the end.  The part of the settings a call is about is the
\* field it sets, or the takes of the clip name of its payload.
RaceDone == cycles # <<>> /\ \A c \in Callers : cycles[c].at = "returned"

Target(op) ==
    CASE op.fn = "saveOutputPath" -> <<"outputPath">>
      [] op.fn = "saveSDKPath" -> <<"sdkPath">>
      [] op.fn = "updateClipData" -> <<"animationTakes", op.payload.name>>

PartOf(data, op) ==
    LET named(t) == t.name = op.payload.name
    IN CASE op.fn = "saveOutputPath" -> <<Get(data, "outputPath", "")>>
         [] op.fn = "saveSDKPath" -> <<Get(data, "sdkPath", "")>>
         [] op.fn = "updateClipData" ->
                SelectSeq(Get(data, "animationTakes", <<>>), named)

\* What the call of caller c made of its part of the settings.
ChangeOf(c) == PartOf(Modified(ui[c], cycles[c].settingsData).data, ui[c])

\* a wrote first, b wrote last.
WroteInOrder(a, b) ==
    /\ a # b
    /\ cycles[a].wroteAt # 0
    /\ cycles[a].wroteAt < cycles[b].wroteAt

Interleaved(a, b) == cycles[b].readAt < cycles[a].wroteAt

C22_LastWriterWins ==
    RaceDone =>
        \A a, b \in Callers :
            WroteInOrder(a, b) =>
                /\ Decoded(blob) = Modified(ui[b], cycles[b].settingsData).data
                /\ Target(ui[a]) # Target(ui[b]) =>
                      /\ PartOf(Decoded(blob), ui[b]) = ChangeOf(b)
                      /\ Interleaved(a, b) =>
                            PartOf(Decoded(blob), ui[a]) = PartOf(start.settings, ui[a])
                      /\ ~Interleaved(a, b) =>
                            PartOf(Decoded(blob), ui[a]) = ChangeOf(a)

\* C22 witness: two interleaved cycles on different parts have ended, and
\* the change the first writer saved is not in the settings.
C22_Witness ==
    /\ RaceDone
    /\ \E a, b \in Callers :
          /\ WroteInOrder(a, b)
          /\ Interleaved(a, b)
          /\ Target(ui[a]) # Target(ui[b])
          /\ ChangeOf(a) # PartOf(start.settings, ui[a])
          /\ PartOf(Decoded(blob), ui[a]) # ChangeOf(a)

\* C23: the node set bakeAnimation bakes is exactly the joints under the
\* template that do not lie under a node of an unsupported type: no
\* transform that is not a joint is baked, and no joint below a constraint,
\* light or camera node is baked.
SupportedJointsOf(T) ==
    {i \in scene[T].alive :
        /\ scene[T].kind[i] = "joint"
        /\ i \notin UnderUnsupported(scene[T])}

SupportedJoints ==
    UNION {{<<T, i>> : i \in SupportedJointsOf(T)} : T \in {C \in ComponentSet : templ[C]}}

C23_BakesSupportedJoints ==
    (bakes.called /\ bakes.passes # <<>>) => bakes.nodes = SupportedJoints

\* The joints below the model component, and whether joint j has a key on
\* each of the three channels of translate, rotate and scale at the frame.
ModelJoints == {i \in scene["Model"].alive : scene["Model"].kind[i] = "joint"}

HasTRSKeys(j, frame) ==
    \A a \in Range(TRS) : \A ch \in Channels : frame \in keyed[j][a][ch]

EveryJointKeyed ==
    \A j \in ModelJoints : HasTRSKeys(j, call.value[1]) /\ HasTRSKeys(j, call.value[2])

\* C24 as stated: checkTakeForAnimation(startFrame, endFrame) returns True if
\* and only if every joint under the Model component has keys on all of
\* translate, rotate and scale (3 key times per attribute) at startFrame and
\* at endFrame.
C24_TrueIffEveryJointKeyed ==
    call.fn = "checkTakeForAnimation" => (checked <=> EveryJointKeyed)

\* C24 amended: checkTakeForAnimation(startFrame, endFrame) returns True if
\* and only if there is a joint under the Model component and every such
\* joint has keys on all of translate, rotate and scale (3 key times per
\* attribute) at startFrame and at endFrame; one joint without a boundary
\* key makes the result False whatever the other joints have and wherever
\* it comes in the order of the joints.
C24_TrueIffJointsAllKeyed ==
    call.fn = "checkTakeForAnimation" =>
        (checked <=> (ModelJoints # {} /\ EveryJointKeyed))

\* C24 witness: of two joints, the first visited has two of the three keys of
\* an attribute at a boundary frame, the second is keyed throughout, and the
\* result is False.
C24_Witness ==
    /\ call.fn = "checkTakeForAnimation"
    /\ ~checked
    /\ Cardinality(ModelJoints) >= 2
    /\ LET joints == getChildren(scene["Model"], 0, TRUE, "kJoint")
       IN /\ ~HasTRSKeys(joints[1], call.value[2])
          /\ \E a \in Range(TRS) : Len(Keyframe(joints[1], a, call.value[2])) = 2
          /\ \A k \in 2..Len(joints) :
                HasTRSKeys(joints[k], call.value[1]) /\ HasTRSKeys(joints[k], call.value[2])

\* The transforms bakeTransforms freezes: the component root and the plain
\* transforms below it that hold no mesh; and the nodes it leaves alone, the
\* joints and the transforms that hold a mesh.
BakedTransforms(s) ==
    {i \in 0..s.n : /\ i = 0 \/ s.kind[i] = "transform"
                    /\ getMeshes(s, i) = <<>>}

ExemptTransforms(s) ==
    {i \in 1..s.n : s.kind[i] = "joint"
                    \/ (s.kind[i] = "transform" /\ getMeshes(s, i) # <<>>)}

\* C25: after bakeTransforms, every transform under the template that is
\* neither a joint nor mesh-bearing has the identity as its local transform,
\* each node that was its child before the bake is again its child, and each
\* such child has the world transform it had before the bake; joints and
\* mesh-bearing nodes are not themselves frozen to the identity.
C25_BakedIdentityChildrenKept ==
    (xform # <<>> /\ xform.called /\ ~xform.raised) =>
        LET s0 == xform.before.s
            s1 == scene["Model"]
        IN /\ \A t \in BakedTransforms(s0) :
                 /\ xform.local[t] = 0
                 /\ \A c \in 1..s0.n :
                       s0.parent[c] = t =>
                           /\ s1.parent[c] = t
                           /\ World(s1, xform.local, c) = World(s0, xform.before.local, c)
           /\ \A j \in ExemptTransforms(s0) :
                 xform.before.local[j] # 0 => xform.local[j] # 0

\* C26: exportIcon refuses to run on a scene that has never been saved: when
\* the scene has no file name it returns False before saving the scene,
\* opening a temporary scene or writing any output.
C26_UnsavedSceneRefused ==
    (sceneName = "" /\ pc = "done") => (exported = "False" /\ io = {})

\* C27: after an exportIconComponent(T) that returns True, every albedo path
\* of the written manifest names a texture file that is in the output
\* directory Icon/T, written by that export.
C27_AlbedoFilesPresent ==
    lastCall.ret = "True" =>
        \A i \in DOMAIN kmat[lastCall.T] :
            LET e == kmat[lastCall.T][i]
            IN "albedo" \in DOMAIN e => e.albedo[3] \in FreshNames(lastCall.T)

\* C28: importSceneReferences terminates for every set of file references in
\* the scene, whether each reference is loaded or unloaded, and when it
\* returns no loaded reference is left un-imported.
C28_ImportReferencesTerminates ==
    /\ <>(refs.pc = "returned")
    /\ [](refs.pc = "returned" =>
             \A k \in DOMAIN refs.files : ~refs.files[k].loaded)

\* C29: in Export and in Upload to ML Device, createIconZip and the sending of
\* the archive happen only after the buildIcon of that action returned
\* success: a failed build is never followed by a bundle.
C29_BundleOnlyAfterSuccessfulBuild ==
    (ui.zipped \/ ui.sent) => (pc = "done" /\ result)

\* C30: AnimationWidget.check returns True only if at least one clip is
\* enabled and every enabled clip passes the span test and the boundary-key
\* test of the loop: one failing enabled clip fails the step, whatever the
\* order of the visit and whatever clips come after it.
SpanPasses(w) == ~(w.endFrame - w.startFrame > w.maxClipSize)

ClipPasses(w) == SpanPasses(w) /\ checkTakeForAnimation(w.startFrame, w.endFrame)

C30_TrueOnlyIfEveryEnabledClipPasses ==
    (call.fn = "check" /\ checked) =>
        /\ EnabledWidgets # {}
        /\ \A i \in EnabledWidgets : ClipPasses(widgets[i])

====
